---- MODULE Spec2Model ----
(***************************************************************************)
(* A model of irae: tracking the rollout of a Kubernetes workload.         *)
(*                                                                         *)
(*   src/src/rollout.rs   the per-kind status evaluators and summaries     *)
(*   src/src/term.rs      workload_rollout, the tracking loop              *)
(*   src/src/infer.rs     infer_parameters                                 *)
(*   src/src/estimate.rs  rollout_iterations, estimate_wait_time           *)
(*                                                                         *)
(* The platform (the API server) is the environment: every call to it      *)
(* returns a value drawn from a bounded set of responses.                  *)
(*                                                                         *)
(* Rust values are written as follows.  Option<T>: the empty sequence <<>> *)
(* is None and <<x>> is Some(x).  Result<T>: a record with a field tag,    *)
(* "ok", "err" (an Err the caller can match on or propagate with ?) or     *)
(* "panic" (assert!, unwrap, expect, unimplemented!: the task unwinds).    *)
(***************************************************************************)
EXTENDS Integers, Sequences, FiniteSets, TLC

VARIABLES
    kind,       \* Rollout.workload
    pc,         \* where workload_rollout (or the evaluator under test) stands
    params,     \* the Inference returned by infer_parameters, None before
    it,         \* the locals of rollout_iterations while it runs
    waittime,   \* term.rs: let waittime
    state,      \* term.rs: let mut state (rollout.rs: struct State)
    i,          \* term.rs: the round of `for i in 1..20`, 0 before the loop
    obs,        \* what the platform answered to the calls of the last step
    rr,         \* the Result<Outcome> of the last status check
    result,     \* how workload_rollout ended: none, success, timeout, error, panic
    ret,        \* the value workload_rollout returned: Some([ok, state]) on Ok
    slept,      \* seconds spent in sleep() so far
    waited,     \* term.rs: let mut waited, the sleeps of the round so far
    nchecks,    \* number of calls of Rollout::status so far
    dbg         \* Rollout::debug: its calls, the pods it walks, the logs it fetched

vars ==
    <<kind, pc, params, it, waittime, state, i, obs, rr, result, ret, slept, waited,
      nchecks, dbg>>

-----------------------------------------------------------------------------
(* Bounds of the model *)

\* largest count in a status object handed to an evaluator on its own
MaxEval == 5
\* largest replica count of a tracked workload
MaxReplicas == 3
\* largest replica count handed to the estimate on its own
MaxEstReplicas == 8
\* largest magnitude of a count in a status object that may be negative
MaxSigned == 2

-----------------------------------------------------------------------------
(* Rust's Option, min and max *)

None == <<>>
Some(x) == <<x>>
is_some(o) == o # <<>>
unwrap_or(o, d) == IF o = <<>> THEN d ELSE o[1]
Opt(S) == {None} \cup {Some(x) : x \in S}

Max(a, b) == IF a >= b THEN a ELSE b
Min(a, b) == IF a <= b THEN a ELSE b

\* the workload kinds
Kinds == {"Deployment", "StatefulSet", "DaemonSet"}

\* Result<Outcome>
Ok(progress, expected, message, ok) ==
    [tag |-> "ok", progress |-> progress, expected |-> expected,
     message |-> message, ok |-> ok]
Err(e) == [tag |-> "err", e |-> e]
Panic(why) == [tag |-> "panic", e |-> why]
Value(v) == [tag |-> "ok", v |-> v]
NoResult == [tag |-> "none"]

-----------------------------------------------------------------------------
(* rollout.rs: strings, versions and containers.  A String is the sequence  *)
(* of its UTF-8 bytes, which is what str::len counts and what a range of a  *)
(* str slices: a byte below 0x80 is written as its ASCII character, a byte  *)
(* from 0x80 on as its two hexadecimal digits ("C3", "A9")                  *)

HexDigits ==
    {"0", "1", "2", "3", "4", "5", "6", "7", "8", "9", "A", "B", "C", "D", "E", "F"}
\* the bytes 0x80..0xBF, which continue a character begun by an earlier byte
ContinuationBytes == {h \o l : h \in {"8", "9", "A", "B"}, l \in HexDigits}

\* str::is_char_boundary(index): the start, the end, or a byte that begins a
\* character
is_char_boundary(str, index) ==
    \/ index = 0
    \/ index = Len(str)
    \/ index < Len(str) /\ str[index + 1] \notin ContinuationBytes

DigitOf(c) ==
    CASE c = "0" -> 0 [] c = "1" -> 1 [] c = "2" -> 2 [] c = "3" -> 3
      [] c = "4" -> 4 [] c = "5" -> 5 [] c = "6" -> 6 [] c = "7" -> 7
      [] c = "8" -> 8 [] c = "9" -> 9 [] OTHER -> -1

\* str::split(':').collect::<Vec<_>>()
RECURSIVE split_colon(_)
split_colon(str) ==
    LET stops == {k \in 1..Len(str) : str[k] = ":"}
    IN  IF stops = {} THEN <<str>>
        ELSE LET n == CHOOSE k \in stops : \A j \in stops : k <= j
             IN  <<SubSeq(str, 1, n - 1)>> \o split_colon(SubSeq(str, n + 1, Len(str)))

RECURSIVE DecimalValue(_)
DecimalValue(ds) ==
    IF ds = <<>> THEN 0
    ELSE 10 * DecimalValue(SubSeq(ds, 1, Len(ds) - 1)) + DigitOf(ds[Len(ds)])

\* the bytes an identifier of a semantic version is made of, in the order of
\* their ASCII codes: '-', '0'..'9', 'A'..'Z', 'a'..'z'
IdentBytes ==
    <<"-", "0", "1", "2", "3", "4", "5", "6", "7", "8", "9", "A", "B", "C",
      "D", "E", "F", "G", "H", "I", "J", "K", "L", "M", "N", "O", "P", "Q",
      "R", "S", "T", "U", "V", "W", "X", "Y", "Z", "a", "b", "c", "d", "e",
      "f", "g", "h", "i", "j", "k", "l", "m", "n", "o", "p", "q", "r", "s",
      "t", "u", "v", "w", "x", "y", "z">>
IsIdentByte(c) == \E k \in 1..Len(IdentBytes) : IdentBytes[k] = c
ByteRank(c) == CHOOSE k \in 1..Len(IdentBytes) : IdentBytes[k] = c
IsDigits(str) == \A k \in 1..Len(str) : DigitOf(str[k]) >= 0

\* Ord::cmp of two strings of identifier bytes: -1, 0 or 1
RECURSIVE str_cmp(_, _)
str_cmp(x, y) ==
    IF x = <<>> THEN (IF y = <<>> THEN 0 ELSE -1)
    ELSE IF y = <<>> THEN 1
    ELSE IF ByteRank(x[1]) < ByteRank(y[1]) THEN -1
    ELSE IF ByteRank(x[1]) > ByteRank(y[1]) THEN 1
    ELSE str_cmp(Tail(x), Tail(y))
int_cmp(a, b) == IF a < b THEN -1 ELSE IF a > b THEN 1 ELSE 0
\* Ordering::then_with
then_with(a, b) == IF a # 0 THEN a ELSE b

\* two numbers written in digits without leading zeros: the longer is the
\* greater, and of two of one length the one that is first as a string
numeric_cmp(x, y) == then_with(int_cmp(Len(x), Len(y)), str_cmp(x, y))

\* u64::MAX in digits
U64Max ==
    <<"1", "8", "4", "4", "6", "7", "4", "4", "0", "7", "3", "7", "0", "9",
      "5", "5", "1", "6", "1", "5">>

\* semver: a numeric identifier (major, minor, patch): digits, no leading
\* zero, a value that a u64 holds
IsNumericIdent(str) ==
    /\ str # <<>>
    /\ IsDigits(str)
    /\ (Len(str) > 1 => str[1] # "0")
    /\ numeric_cmp(str, U64Max) <= 0

RECURSIVE split_dot(_)
split_dot(str) ==
    LET stops == {k \in 1..Len(str) : str[k] = "."}
    IN  IF stops = {} THEN <<str>>
        ELSE LET n == CHOOSE k \in stops : \A j \in stops : k <= j
             IN  <<SubSeq(str, 1, n - 1)>> \o split_dot(SubSeq(str, n + 1, Len(str)))

\* semver: the identifiers after '-' (pre-release) or '+' (build metadata):
\* segments between dots, none empty, of identifier bytes; a pre-release
\* segment of digits alone has no leading zero
IsIdentifier(str, is_pre) ==
    \A k \in 1..Len(split_dot(str)) :
        LET seg == split_dot(str)[k]
        IN  /\ seg # <<>>
            /\ \A j \in 1..Len(seg) : IsIdentByte(seg[j])
            /\ (is_pre /\ Len(seg) > 1 /\ IsDigits(seg)) => seg[1] # "0"

\* a number in digits
RECURSIVE DecimalDigits(_)
DecimalDigits(n) ==
    IF n < 10 THEN <<IdentBytes[n + 2]>>
    ELSE DecimalDigits(n \div 10) \o <<IdentBytes[(n % 10) + 2]>>

\* Version::new(major, minor, patch); a Version is <<major, minor, patch, pre,
\* build>>: the three numbers in digits (a u64 is wider than the integers at
\* hand), pre and build the lists of their segments, empty when absent
Version_new(major, minor, patch) ==
    <<DecimalDigits(major), DecimalDigits(minor), DecimalDigits(patch), <<>>, <<>>>>

\* semver::Version::parse: Some(version), or None for an Err
Version_parse(str) ==
    LET marks == {k \in 1..Len(str) : str[k] \in {"-", "+"}}
        m == IF marks = {} THEN Len(str) + 1
             ELSE CHOOSE k \in marks : \A j \in marks : k <= j
        core == split_dot(SubSeq(str, 1, m - 1))
        has_pre == m <= Len(str) /\ str[m] = "-"
        pluses == {k \in m..Len(str) : str[k] = "+"}
        b == IF pluses = {} THEN Len(str) + 1
             ELSE CHOOSE k \in pluses : \A j \in pluses : k <= j
        pre == IF has_pre THEN SubSeq(str, m + 1, b - 1) ELSE <<>>
        has_build == b <= Len(str)
        build == IF has_build THEN SubSeq(str, b + 1, Len(str)) ELSE <<>>
    IN  IF Len(core) # 3 \/ \E k \in 1..Len(core) : ~IsNumericIdent(core[k]) THEN None
        ELSE IF has_pre /\ ~IsIdentifier(pre, TRUE) THEN None
        ELSE IF has_build /\ ~IsIdentifier(build, FALSE) THEN None
        ELSE Some(<<core[1], core[2], core[3],
                    IF has_pre THEN split_dot(pre) ELSE <<>>,
                    IF has_build THEN split_dot(build) ELSE <<>>>>)

\* a digit string without its leading zeros
RECURSIVE trim_zeros(_)
trim_zeros(str) ==
    IF str # <<>> /\ str[1] = "0" THEN trim_zeros(Tail(str)) ELSE str

\* one segment against one segment in Ord for Prerelease
pre_segment_cmp(x, y) ==
    IF IsDigits(x) /\ IsDigits(y) THEN then_with(int_cmp(Len(x), Len(y)), str_cmp(x, y))
    ELSE IF IsDigits(x) THEN -1
    ELSE IF IsDigits(y) THEN 1
    ELSE str_cmp(x, y)

\* one segment against one segment in Ord for BuildMetadata
build_segment_cmp(x, y) ==
    IF IsDigits(x) /\ IsDigits(y)
    THEN then_with(int_cmp(Len(trim_zeros(x)), Len(trim_zeros(y))),
                   then_with(str_cmp(trim_zeros(x), trim_zeros(y)),
                             int_cmp(Len(x), Len(y))))
    ELSE IF IsDigits(x) THEN -1
    ELSE IF IsDigits(y) THEN 1
    ELSE str_cmp(x, y)

\* the walk over the segments of both sides, from segment k on
RECURSIVE segments_cmp(_, _, _, _)
segments_cmp(xs, ys, k, is_pre) ==
    IF k > Len(xs) THEN (IF k > Len(ys) THEN 0 ELSE -1)
    ELSE IF k > Len(ys) THEN 1
    ELSE LET c == IF is_pre THEN pre_segment_cmp(xs[k], ys[k])
                  ELSE build_segment_cmp(xs[k], ys[k])
         IN  IF c # 0 THEN c ELSE segments_cmp(xs, ys, k + 1, is_pre)

\* Ord for Prerelease: a version without pre-release is above one with
Prerelease_cmp(x, y) ==
    IF x = <<>> THEN (IF y = <<>> THEN 0 ELSE 1)
    ELSE IF y = <<>> THEN -1
    ELSE segments_cmp(x, y, 1, TRUE)

\* Ord for BuildMetadata: the empty one is below every other
BuildMetadata_cmp(x, y) ==
    IF x = <<>> THEN (IF y = <<>> THEN 0 ELSE -1)
    ELSE IF y = <<>> THEN 1
    ELSE segments_cmp(x, y, 1, FALSE)

\* Ord for Version: major, minor, patch, pre, build in turn
Version_cmp(a, b) ==
    then_with(numeric_cmp(a[1], b[1]),
    then_with(numeric_cmp(a[2], b[2]),
    then_with(numeric_cmp(a[3], b[3]),
    then_with(Prerelease_cmp(a[4], b[4]), BuildMetadata_cmp(a[5], b[5])))))

\* v > max_ver
Version_gt(a, b) == Version_cmp(a, b) = 1

\* fn short_ver: ver.len() is the length in bytes, and &ver[..8] panics when
\* byte 8 is inside a character
short_ver(ver) ==
    IF Version_parse(ver) = None /\ Len(ver) = 40
    THEN IF is_char_boundary(ver, 8) THEN Value(SubSeq(ver, 1, 8))
         ELSE Panic("byte index 8 is not a char boundary")
    ELSE Value(ver)

\* fn extract_container: the requested container if there is one of that
\* name, else &containers[0], which panics on an empty list
extract_container(containers, request) ==
    LET hits == IF request = None THEN {}
                ELSE {k \in 1..Len(containers) : containers[k].name = request[1]}
    IN  IF hits # {} THEN Value(containers[CHOOSE k \in hits : \A j \in hits : k <= j])
        ELSE IF containers = <<>> THEN Panic("index out of bounds")
        ELSE Value(containers[1])

\* a Container, as far as it is read
Container(name, image) == [name |-> name, image |-> image]

\* image references: one tag, no tag, a registry port and a tag, a tag of 40
\* bytes that is a commit hash, a tag of 40 bytes that is a semantic version,
\* a tag of 40 bytes whose bytes 8 and 9 are one character (e with an acute
\* accent, C3 A9), a tag of 40 bytes made of 20 such characters
ImageTagged == <<"w", "e", "b", ":", "1", ".", "0", ".", "0">>
ImageUntagged == <<"w", "e", "b">>
ImageWithPort == <<"r", ":", "5", "0", "/", "w", ":", "2", ".", "0", ".", "0">>
ImageOfCommit ==
    <<"w", "e", "b", ":", "0", "1", "2", "3", "4", "5", "6", "7", "8", "9",
      "a", "b", "c", "d", "e", "f", "0", "1", "2", "3", "4", "5", "6", "7",
      "8", "9", "a", "b", "c", "d", "e", "f", "0", "1", "2", "3", "4", "5",
      "6", "7">>
ImageOfSplitCharacter ==
    <<"w", "e", "b", ":", "1", "2", "3", "4", "5", "6", "7", "C3", "A9", "a",
      "a", "a", "a", "a", "a", "a", "a", "a", "a", "a", "a", "a", "a", "a",
      "a", "a", "a", "a", "a", "a", "a", "a", "a", "a", "a", "a", "a", "a",
      "a", "a">>
ImageOfWideCharacters ==
    <<"w", "e", "b", ":", "C3", "A9", "C3", "A9", "C3", "A9", "C3", "A9",
      "C3", "A9", "C3", "A9", "C3", "A9", "C3", "A9", "C3", "A9", "C3", "A9",
      "C3", "A9", "C3", "A9", "C3", "A9", "C3", "A9", "C3", "A9", "C3", "A9",
      "C3", "A9", "C3", "A9", "C3", "A9", "C3", "A9">>
ImageOfLongVersion ==
    <<"w", "e", "b", ":", "1", ".", "0", ".", "0", "-", "r", "c", "1", "a",
      "b", "c", "d", "e", "f", "g", "h", "i", "j", "k", "l", "m", "n", "o",
      "p", "q", "r", "s", "t", "u", "v", "w", "x", "y", "z", "0", "1", "2",
      "3", "4">>

-----------------------------------------------------------------------------
(* rollout.rs: summaries of the platform's objects *)

\* conds.iter().find(|c| c.type_ == "Progressing")
find_progressing(conds) ==
    LET hits == {k \in 1..Len(conds) : conds[k].type_ = "Progressing"}
    IN  IF hits = {} THEN None
        ELSE Some(conds[CHOOSE k \in hits : \A j \in hits : k <= j])

\* impl TryFrom<Deployment> for DeploySummary
DeploySummary_try_from(d) ==
    IF d.status = None THEN Err("KubeInvariant")
    ELSE LET status == d.status[1]
             pcond == IF status.conditions = None THEN None
                      ELSE find_progressing(status.conditions[1])
             hasreason == is_some(pcond) /\ is_some(pcond[1].reason)
         IN  [tag |-> "ok",
              ready |-> unwrap_or(status.ready_replicas, 0),
              unavailable |-> unwrap_or(status.unavailable_replicas, 0),
              replicas |-> unwrap_or(status.replicas, 0),
              message |-> IF hasreason THEN pcond[1].message ELSE None,
              new_replicas_available |->
                  hasreason /\ pcond[1].reason = Some("NewReplicaSetAvailable")]

\* the version of a ReplicaSetSummary whose pod template names no container
UnknownVersion ==
    <<"u", "n", "k", "n", "o", "w", "n", " ", "v", "e", "r", "s", "i", "o", "n">>

\* impl TryFrom<ReplicaSet> for ReplicaSetSummary.  rs.template is the pod
\* spec of rs.spec.template, None when any of the three levels is absent
ReplicaSetSummary_try_from(rs) ==
    IF rs.status = None THEN Err("KubeInvariant")
    ELSE LET main == IF rs.template = None THEN Value(None)
                     ELSE LET c == extract_container(rs.template[1].containers,
                                                     rs.template[1].default_container)
                          IN  IF c.tag # "ok" THEN c ELSE Value(Some(c.v))
             parts == split_colon(unwrap_or(main.v[1].image, <<":">>))
             ver == short_ver(parts[2])
         IN  IF main.tag # "ok" THEN main
             ELSE IF is_some(main.v) /\ Len(parts) < 2 THEN Panic("index out of bounds")
             ELSE IF is_some(main.v) /\ ver.tag # "ok" THEN ver
             ELSE IF rs.labels.pod_template_hash = None THEN Err("KubeInvariant")
             ELSE [tag |-> "ok",
                   hash |-> rs.labels.pod_template_hash[1],
                   version |-> IF is_some(main.v) THEN ver.v ELSE UnknownVersion,
                   replicas |-> rs.status[1].replicas,
                   ready |-> unwrap_or(rs.status[1].ready_replicas, 0)]

\* impl TryFrom<StatefulSet> for StatefulSummary
StatefulSummary_try_from(d) ==
    IF d.status = None THEN Err("KubeInvariant")
    ELSE LET status == d.status[1]
         IN  [tag |-> "ok",
              ready |-> unwrap_or(status.ready_replicas, 0),
              replicas |-> status.replicas,
              current_revision |-> status.current_revision,
              current_replicas |-> unwrap_or(status.current_replicas, 0),
              update_revision |-> status.update_revision,
              updated_replicas |-> unwrap_or(status.updated_replicas, 0)]

\* impl TryFrom<DaemonSet> for DaemonSummary
DaemonSummary_try_from(d) ==
    IF d.status = None THEN Err("KubeInvariant")
    ELSE LET status == d.status[1]
         IN  [tag |-> "ok",
              ready |-> status.number_ready,
              desired |-> status.desired_number_scheduled,
              updated |-> status.updated_number_scheduled]

\* Rollout::get_rs on the answer `l` of the list call: an Err of the call is
\* propagated, assert_eq!(rs.items.len(), 1) panics, else the first item
get_rs(l) ==
    IF l.err THEN Err("Kube")
    ELSE IF Len(l.items) # 1 THEN Panic("only one matching replicaset candidate")
    ELSE [tag |-> "ok", v |-> Some(l.items[1])]

-----------------------------------------------------------------------------
(* rollout.rs: the status evaluators.  `o` holds the platform's answers:   *)
(* o.obj to the get of the workload, o.rs to the list of replica sets.     *)

\* accurate_ok, had it accepted a replica set with more ready pods than asked
accurate_ok_atleast(acc, minimum) == acc >= minimum

\* the accurate-progress test of rollout_status_deploy (line 159)
accurate_ok(acc, minimum) == acc = minimum

\* fallback_ok, had it left out the test of line 176
fallback_ok_counts_only(d, minimum) ==
    /\ d.ready = d.replicas
    /\ d.ready >= minimum

\* the fallback test of rollout_status_deploy (lines 171-176)
fallback_ok(d, minimum) ==
    /\ d.ready = d.replicas
    /\ d.ready >= minimum
    /\ (d.new_replicas_available \/ d.unavailable <= 0)

\* lines 141-196 of rollout_status_deploy, once the summaries are at hand:
\* r is None (no replica set consulted) or Some(ReplicaSetSummary)
deploy_outcome(d, r, st) ==
    LET accurate_progress == IF is_some(r) THEN Some(r[1].ready) ELSE None
        minimum == IF is_some(r)
                   THEN Max(st.min_replicas,
                            IF r[1].replicas >= 0 THEN r[1].replicas ELSE 0)
                   ELSE st.min_replicas
        ok == IF is_some(accurate_progress)
              THEN accurate_ok(accurate_progress[1], minimum)
              ELSE fallback_ok(d, minimum)
        progress == IF is_some(accurate_progress) THEN accurate_progress[1]
                    ELSE Max(0, d.ready - d.unavailable)
    IN  IF progress < 0 THEN Err("KubeInvariant")
        ELSE Ok(progress, minimum, d.message, ok)

rollout_status_deploy(o, st) ==
    IF o.obj.err THEN Err("Kube")
    ELSE LET d == DeploySummary_try_from(o.obj)
         IN  IF d.tag # "ok" THEN d
             ELSE IF ~is_some(st.hash) THEN deploy_outcome(d, None, st)
             ELSE LET got == get_rs(o.rs)
                  IN  IF got.tag # "ok" THEN got
                      ELSE LET r == ReplicaSetSummary_try_from(got.v[1])
                           IN  IF r.tag # "ok" THEN r
                               ELSE deploy_outcome(d, Some(r), st)

\* sts_ok, had it left out the comparison of revisions
sts_ok_any_revision(s, st) ==
    /\ s.updated_replicas >= st.min_replicas
    /\ s.updated_replicas = s.ready

\* the completion test of rollout_status_statefulset (lines 204-207)
sts_ok(s, st) ==
    /\ s.updated_replicas >= st.min_replicas
    /\ s.updated_replicas = s.ready
    /\ s.update_revision = st.hash

rollout_status_statefulset(o, st) ==
    IF o.obj.err THEN Err("Kube")
    ELSE LET s == StatefulSummary_try_from(o.obj)
         IN  IF s.tag # "ok" THEN s
             ELSE LET ok == sts_ok(s, st)
                  IN  Ok(Max(0, s.updated_replicas), st.min_replicas,
                         IF ok THEN None ELSE Some("Statefulset update in progress"),
                         ok)

\* ds_ok, had it compared the updated count with the ready count
ds_ok_against_ready(s, st) ==
    /\ s.desired >= st.min_replicas
    /\ Some(s.ready) = s.updated

\* the completion test of rollout_status_daemonset (lines 240-242)
ds_ok(s, st) ==
    /\ s.desired >= st.min_replicas
    /\ Some(s.desired) = s.updated

\* ds_progress, had it not clamped the count
ds_progress_unclamped(s) == unwrap_or(s.updated, s.ready)

\* the progress of rollout_status_daemonset (line 249)
ds_progress(s) == Max(0, unwrap_or(s.updated, s.ready))

rollout_status_daemonset(o, st) ==
    IF o.obj.err THEN Err("Kube")
    ELSE LET s == DaemonSummary_try_from(o.obj)
         IN  IF s.tag # "ok" THEN s
             ELSE LET ok == ds_ok(s, st)
                  IN  Ok(ds_progress(s), st.min_replicas,
                         IF ok THEN None ELSE Some("Daemonset update in progress"),
                         ok)

\* Rollout::status
status(k, o, st) ==
    CASE k = "Deployment" -> rollout_status_deploy(o, st)
      [] k = "StatefulSet" -> rollout_status_statefulset(o, st)
      [] k = "DaemonSet" -> rollout_status_daemonset(o, st)

-----------------------------------------------------------------------------
(* The platform's answers *)

\* a term of a label selector
Term(k, v) == [key |-> k, val |-> v]
AppTerm == Term("app", "web")
HashTerm(h) == Term("pod-template-hash", h)

\* the conditions of a Deployment's status: the platform keeps one condition
\* per type
Cond(t, reason) == [type_ |-> t, reason |-> reason, message |-> Some("msg")]
CondLists ==
    {None, Some(<<>>),
     Some(<<Cond("Available", Some("NewReplicaSetAvailable"))>>),
     Some(<<Cond("Progressing", None)>>),
     Some(<<Cond("Progressing", Some("NewReplicaSetAvailable"))>>),
     Some(<<Cond("Available", Some("MinimumReplicasAvailable")),
            Cond("Progressing", Some("ReplicaSetUpdated"))>>)}

\* answers to get_deploy, as far as a status check reads them
GetErr == [err |-> TRUE, status |-> None]
NoStatus == [err |-> FALSE, status |-> None]
DeployStatus(replicas, ready, unavailable, conds) ==
    [err |-> FALSE,
     status |-> Some([replicas |-> replicas, ready_replicas |-> ready,
                      unavailable_replicas |-> unavailable, conditions |-> conds])]
DeployObjs(C, CL) ==
    {GetErr, NoStatus} \cup
    {DeployStatus(a, b, c, cl) : a \in Opt(C), b \in Opt(C), c \in Opt(C), cl \in CL}

\* values of the label app.kubernetes.io/version
Label_0_0_0 == <<"0", ".", "0", ".", "0">>
Label_1_0_0 == <<"1", ".", "0", ".", "0">>
Label_1_9_0 == <<"1", ".", "9", ".", "0">>
Label_1_10_0 == <<"1", ".", "1", "0", ".", "0">>
Label_1_10_0_rc1 == <<"1", ".", "1", "0", ".", "0", "-", "r", "c", "1">>
Label_2_0_0 == <<"2", ".", "0", ".", "0">>
Label_latest == <<"l", "a", "t", "e", "s", "t">>

\* a ReplicaSet, as far as it is read
PodTemplate(containers) == Some([default_container |-> None, containers |-> containers])
ReplicaSetObj(replicas, ready, h, ver) ==
    [status |-> Some([replicas |-> replicas, ready_replicas |-> ready]),
     labels |-> [pod_template_hash |-> h, version |-> ver],
     template |-> PodTemplate(<<Container("web", Some(ImageTagged))>>)]
ReplicaSetNoStatus(h, ver) ==
    [status |-> None, labels |-> [pod_template_hash |-> h, version |-> ver],
     template |-> PodTemplate(<<Container("web", Some(ImageTagged))>>)]

\* answers to the list of replica sets under a selector that pins hash h:
\* the call fails, or returns items that all carry the label
NotCalled == [called |-> FALSE, err |-> FALSE, items |-> <<>>]
ListErr == [called |-> TRUE, err |-> TRUE, items |-> <<>>]
Listed(items) == [called |-> TRUE, err |-> FALSE, items |-> items]
ReplicaSetOfImage(rs, image) ==
    [rs EXCEPT !.template = PodTemplate(<<Container("web", Some(image))>>)]
PinnedSets(C, h) ==
    {ReplicaSetNoStatus(Some(h), Some(Label_1_0_0))} \cup
    {ReplicaSetObj(a, b, Some(h), Some(Label_1_0_0)) : a \in C, b \in Opt(C)} \cup
    {ReplicaSetOfImage(ReplicaSetObj(a, Some(a), Some(h), Some(Label_1_0_0)), image) :
        a \in C, image \in {ImageOfCommit, ImageOfSplitCharacter}}
PinnedLists(C, h) ==
    {ListErr, Listed(<<>>),
     Listed(<<ReplicaSetObj(0, None, Some(h), Some(Label_1_0_0)),
              ReplicaSetObj(0, None, Some(h), Some(Label_1_0_0))>>)} \cup
    {Listed(<<rs>>) : rs \in PinnedSets(C, h)}

\* answers to get_statefulset
Revisions == {None, Some("r1"), Some("r2")}
StsStatus(replicas, ready, updated, cur, upd) ==
    [err |-> FALSE,
     status |-> Some([replicas |-> replicas, ready_replicas |-> ready,
                      current_revision |-> cur, current_replicas |-> ready,
                      update_revision |-> upd, updated_replicas |-> updated])]
StsObjs(C, N) ==
    {GetErr, NoStatus} \cup
    {StsStatus(n, b, c, cur, upd) :
        n \in N, b \in Opt(C), c \in Opt(C), cur \in {Some("r1")}, upd \in Revisions}

\* answers to get_daemonset
DsStatus(ready, desired, updated) ==
    [err |-> FALSE,
     status |-> Some([number_ready |-> ready, desired_number_scheduled |-> desired,
                      updated_number_scheduled |-> updated])]
DsObjs(C) ==
    {GetErr, NoStatus} \cup
    {DsStatus(a, b, c) : a \in C, b \in C, c \in Opt(C)}

\* what a status check observed
StatusObs(obj, rs) == [call |-> "status", obj |-> obj, rs |-> rs]
NoObs == [call |-> "none"]

\* rollout.rs: struct State
State(hash, min_replicas, selector) ==
    [hash |-> hash, min_replicas |-> min_replicas, selector |-> selector]

-----------------------------------------------------------------------------
(* estimate.rs: AvailabilityPolicy, RolloutStrategy, estimate_wait_time *)

\* a String is the sequence of its bytes; every number of this
\* section stays far below the width of u32 under the bounds of the model
\* str::parse::<u32>: an optional '+', then one digit or more
parse_u32(str) ==
    LET ds == IF str # <<>> /\ str[1] = "+" THEN Tail(str) ELSE str
    IN  IF ds = <<>> \/ \E k \in 1..Len(ds) : DigitOf(ds[k]) < 0 THEN None
        ELSE Some(DecimalValue(ds))

\* percstr.chars().take_while(|ch| *ch != '%')
take_while_not_percent(str) ==
    LET stops == {k \in 1..Len(str) : str[k] = "%"}
        n == IF stops = {} THEN Len(str) + 1
             ELSE CHOOSE k \in stops : \A j \in stops : k <= j
    IN  SubSeq(str, 1, n - 1)

\* (x / 100.0).ceil() as u32 and (x / 100.0).floor() as u32, x a whole number
CeilPercent(x) == (x + 99) \div 100
FloorPercent(x) == x \div 100

Unsigned(u) == [tag |-> "Unsigned", v |-> u]
Percentage(str) == [tag |-> "Percentage", v |-> str]
IntVal(n) == [tag |-> "Int", v |-> n]
StrVal(str) == [tag |-> "String", v |-> str]


\* impl From<IntOrString> for AvailabilityPolicy
AvailabilityPolicy_from(ios) ==
    IF ios.tag = "Int" THEN Unsigned(IF ios.v < 0 THEN -ios.v ELSE ios.v)
    ELSE Percentage(ios.v)

\* to_replicas_ceil, had it rounded down as to_replicas_floor does
to_replicas_ceil_rounds_down(policy, replicas) ==
    IF policy.tag = "Percentage"
    THEN LET surgeperc == parse_u32(take_while_not_percent(policy.v))
         IN  IF surgeperc = None THEN Panic("parse")
             ELSE Value(FloorPercent(replicas * surgeperc[1]))
    ELSE Value(policy.v)

\* AvailabilityPolicy::to_replicas_ceil
to_replicas_ceil(policy, replicas) ==
    IF policy.tag = "Percentage"
    THEN LET surgeperc == parse_u32(take_while_not_percent(policy.v))
         IN  IF surgeperc = None THEN Panic("parse")
             ELSE Value(CeilPercent(replicas * surgeperc[1]))
    ELSE Value(policy.v)

\* AvailabilityPolicy::to_replicas_floor
to_replicas_floor(policy, replicas) ==
    IF policy.tag = "Percentage"
    THEN LET surgeperc == parse_u32(take_while_not_percent(policy.v))
         IN  IF surgeperc = None THEN Panic("parse")
             ELSE Value(FloorPercent(replicas * surgeperc[1]))
    ELSE Value(policy.v)

RolloutStrategy(max_unavailable, max_surge) ==
    [max_unavailable |-> max_unavailable, max_surge |-> max_surge]

\* the Default, had it allowed no replica to be unavailable
RolloutStrategy_default_no_unavailable ==
    RolloutStrategy(Some(Unsigned(0)), Some(Percentage(<<"2", "5">>)))

\* impl Default for RolloutStrategy
RolloutStrategy_default ==
    RolloutStrategy(Some(Percentage(<<"2", "5">>)), Some(Percentage(<<"2", "5">>)))

\* impl From<DeployStrategy> and From<DsStrategy> for RolloutStrategy
RolloutStrategy_from_deploy(ds) ==
    RolloutStrategy(
        IF ds.max_unavailable = None THEN None
        ELSE Some(AvailabilityPolicy_from(ds.max_unavailable[1])),
        IF ds.max_surge = None THEN None
        ELSE Some(AvailabilityPolicy_from(ds.max_surge[1])))

\* impl From<StsStrategy> for RolloutStrategy
RolloutStrategy_from_sts(ds) ==
    RolloutStrategy(
        IF ds.max_unavailable = None THEN None
        ELSE Some(AvailabilityPolicy_from(ds.max_unavailable[1])),
        Some(Unsigned(0)))

\* rollout_iterations, lines 110-127: the locals at the head of the loop
\* (replicas stays far below the width of u32 here)
rollout_iterations_enter(self, replicas) ==
    LET surge == IF is_some(self.max_surge)
                 THEN to_replicas_ceil(self.max_surge[1], replicas)
                 ELSE Value(CeilPercent(replicas * 25))
        unavail == IF is_some(self.max_unavailable)
                   THEN to_replicas_floor(self.max_unavailable[1], replicas)
                   ELSE Value(FloorPercent(replicas * 25))
    IN  IF surge.tag # "ok" THEN surge
        ELSE IF unavail.tag # "ok" THEN unavail
        ELSE Value([replicas |-> replicas, surge |-> surge.v, unavail |-> unavail.v,
                    newrs |-> 0, oldrs |-> replicas, iters |-> 0])

\* rollout_iterations, line 134: the test of the while loop
rollout_iterations_continues(l) == l.newrs < l.replicas

\* the body of the loop, had it left the pods it terminates out of newrs
rollout_iterations_body_forgets_unavailable(l) ==
    LET oldrs1 == l.oldrs - (l.oldrs + l.newrs - l.replicas)
        total == l.newrs + oldrs1
        unavail_safe == IF total <= l.unavail THEN 0 ELSE l.unavail
    IN  [l EXCEPT !.oldrs = oldrs1 - Min(oldrs1, unavail_safe),
                  !.newrs = l.newrs + l.surge,
                  !.iters = l.iters + 1]

\* the body of the loop, had it not counted the pass
rollout_iterations_body_no_count(l) ==
    LET oldrs1 == l.oldrs - (l.oldrs + l.newrs - l.replicas)
        total == l.newrs + oldrs1
        unavail_safe == IF total <= l.unavail THEN 0 ELSE l.unavail
    IN  [l EXCEPT !.oldrs = oldrs1 - Min(oldrs1, unavail_safe),
                  !.newrs = l.newrs + unavail_safe + l.surge]

\* rollout_iterations, lines 135-153: one pass through the body of the loop
rollout_iterations_body(l) ==
    LET oldrs1 == l.oldrs - (l.oldrs + l.newrs - l.replicas)
        total == l.newrs + oldrs1
        unavail_safe == IF total <= l.unavail THEN 0 ELSE l.unavail
    IN  [l EXCEPT !.oldrs = oldrs1 - Min(oldrs1, unavail_safe),
                  !.newrs = l.newrs + unavail_safe + l.surge,
                  !.iters = l.iters + 1]

\* a call that never returns
Diverges == [tag |-> "diverges"]

\* the builds of the crate: with overflow checks (cargo's dev profile), where
\* `iters += 1` panics once iters is u32::MAX, and without (the release
\* profile), where it wraps around to 0
Builds == BOOLEAN

\* a pass that leaves newrs as it was: every local but iters is as it was
\* (oldrs is reset from newrs at the head of each pass), so every later pass
\* does the same and the test of the loop never fails
rollout_iterations_stalls(l) ==
    /\ rollout_iterations_continues(l)
    /\ rollout_iterations_body(l).newrs = l.newrs

\* how a loop that stalls ends: iters counts the passes up to u32::MAX, then
\* line 153 panics in a build with overflow checks; in a build without them
\* iters wraps around and the loop is never left
rollout_iterations_stalled(overflow_checks) ==
    IF overflow_checks THEN Panic("attempt to add with overflow") ELSE Diverges

\* rollout_iterations, lines 134-157: the loop run to its end
RECURSIVE rollout_iterations_loop(_, _)
rollout_iterations_loop(l, overflow_checks) ==
    IF ~rollout_iterations_continues(l) THEN Value(l.iters)
    ELSE IF rollout_iterations_stalls(l) THEN rollout_iterations_stalled(overflow_checks)
    ELSE rollout_iterations_loop(rollout_iterations_body(l), overflow_checks)

\* RolloutStrategy::rollout_iterations, in the build given
rollout_iterations(self, replicas, overflow_checks) ==
    LET l == rollout_iterations_enter(self, replicas)
    IN  IF l.tag # "ok" THEN l ELSE rollout_iterations_loop(l.v, overflow_checks)

\* struct WaitParams
WaitParams(rolling_update, min_replicas, image_size, initial_delay_seconds) ==
    [rolling_update |-> rolling_update, min_replicas |-> min_replicas,
     image_size |-> image_size, initial_delay_seconds |-> initial_delay_seconds]

\* estimate::wait_time(&Inference), called by workload_rollout: the parameters
\* estimate_wait_time is given; the image size is not inferred
wait_time_params(p) ==
    WaitParams(p.strategy, p.min_replicas, None, p.initial_delay_seconds)

\* the arithmetic of estimate_wait_time, had it given the delay no leeway
estimate_wait_time_of_no_leeway(wp, iterations) ==
    LET size == unwrap_or(wp.image_size, 512)
        pulltime_est == Max(60, (size * 90) \div 512)
        delay_time_secs == unwrap_or(wp.initial_delay_seconds, 30)
    IN  (delay_time_secs + pulltime_est) * iterations

\* estimate_wait_time, lines 194-197 and 204-211, given the iterations
estimate_wait_time_of(wp, iterations) ==
    LET size == unwrap_or(wp.image_size, 512)
        pulltime_est == Max(60, (size * 90) \div 512)
        delay_time_secs == unwrap_or(wp.initial_delay_seconds, 30)
        delay_time == (delay_time_secs * 3 + 1) \div 2
    IN  (delay_time + pulltime_est) * iterations

-----------------------------------------------------------------------------
(* infer.rs *)

\* struct Inference
Inference(strategy, selector, min_replicas, initial_delay_seconds) ==
    [strategy |-> strategy, selector |-> selector, min_replicas |-> min_replicas,
     initial_delay_seconds |-> initial_delay_seconds]

\* find_deploy_selector, find_sts_selector, find_ds_selector
find_selector(w) == IF w.spec = None THEN None ELSE Some(w.spec[1].selector)

\* find_deploy_strategy, find_ds_strategy
find_deploy_strategy(w) ==
    IF w.spec = None THEN None
    ELSE IF w.spec[1].rolling_update = None THEN None
    ELSE Some(RolloutStrategy_from_deploy(w.spec[1].rolling_update[1]))

\* find_sts_strategy
find_sts_strategy(w) ==
    IF w.spec = None THEN None
    ELSE IF w.spec[1].rolling_update = None THEN None
    ELSE Some(RolloutStrategy_from_sts(w.spec[1].rolling_update[1]))

\* x.try_into().unwrap() from i32 to u32
to_u32_unwrap(x) == IF x < 0 THEN Panic("unwrap") ELSE Value(x)

\* find_deploy_replicas, had it taken the platform's default of one replica
\* when neither the spec nor the status gives a count
find_deploy_replicas_defaults_to_one(w) ==
    IF w.spec = None \/ w.status = None THEN None
    ELSE LET n == IF is_some(w.spec[1].replicas) THEN w.spec[1].replicas
                  ELSE w.status[1].replicas
         IN  IF n = None THEN Some(Value(1)) ELSE Some(to_u32_unwrap(n[1]))

\* find_deploy_replicas: None, or Some(the Result of the conversion)
find_deploy_replicas(w) ==
    IF w.spec = None \/ w.status = None THEN None
    ELSE LET n == IF is_some(w.spec[1].replicas) THEN w.spec[1].replicas
                  ELSE w.status[1].replicas
         IN  IF n = None THEN None ELSE Some(to_u32_unwrap(n[1]))

\* find_sts_replicas
find_sts_replicas(w) ==
    IF w.spec = None \/ w.status = None THEN None
    ELSE Some(to_u32_unwrap(unwrap_or(w.spec[1].replicas, w.status[1].replicas[1])))

\* find_ds_replicas
find_ds_replicas(w) ==
    IF w.status = None THEN None
    ELSE Some(to_u32_unwrap(w.status[1].desired_number_scheduled))

\* find_pod_delay over the containers' readiness initial_delay_seconds (None:
\* no probe, or a probe without a delay)
RECURSIVE find_pod_delay_max(_)
find_pod_delay_max(cs) ==
    IF cs = <<>> THEN 0
    ELSE LET rest == find_pod_delay_max(Tail(cs))
             delay == Head(cs)
         IN  IF delay = None THEN rest
             ELSE Max(rest, IF delay[1] < 0 THEN -delay[1] ELSE delay[1])

\* find_deploy_delay, find_sts_delay, find_ds_delay
find_delay(w) ==
    IF w.spec = None THEN None
    ELSE IF w.spec[1].podspec = None THEN None
    ELSE Some(find_pod_delay_max(w.spec[1].podspec[1]))

\* Rollout::infer_parameters on the answer `w` of the get of the workload
infer_parameters(k, w) ==
    IF w.err THEN Err("Kube")
    ELSE LET selector == find_selector(w)
             replicas == CASE k = "Deployment" -> find_deploy_replicas(w)
                           [] k = "StatefulSet" -> find_sts_replicas(w)
                           [] k = "DaemonSet" -> find_ds_replicas(w)
             strategy == IF k = "StatefulSet" THEN find_sts_strategy(w)
                         ELSE find_deploy_strategy(w)
         IN  IF selector = None THEN Err("KubeInvariant")
             ELSE IF replicas = None THEN Err("KubeInvariant")
             ELSE IF replicas[1].tag # "ok" THEN replicas[1]
             ELSE Value(Inference(strategy, selector[1], replicas[1].v, find_delay(w)))

-----------------------------------------------------------------------------
(* lib.rs and rollout.rs: choosing the replica set to pin *)

\* version_label, had a missing or unparsable label counted as version 0.0.0
version_label_or_zero(rs) ==
    IF rs.labels.version = None THEN Value(Version_new(0, 0, 0))
    ELSE IF Version_parse(rs.labels.version[1]) = None THEN Value(Version_new(0, 0, 0))
    ELSE Value(Version_parse(rs.labels.version[1])[1])

\* version_label
version_label(rs) ==
    IF rs.labels.version = None THEN Err("NonSemverVersion")
    ELSE IF Version_parse(rs.labels.version[1]) = None THEN Err("NonSemverVersion")
    ELSE Value(Version_parse(rs.labels.version[1])[1])

\* the loop of get_highest_version_replicaset over items k.., with the
\* running max_ver and best
RECURSIVE highest_from(_, _, _, _)
highest_from(items, k, max_ver, best) ==
    IF k > Len(items) THEN Value(best)
    ELSE LET v == version_label(items[k])
         IN  IF v.tag # "ok" THEN v
             ELSE IF Version_gt(v.v, max_ver)
                  THEN highest_from(items, k + 1, v.v, Some(items[k]))
                  ELSE highest_from(items, k + 1, max_ver, best)

\* Rollout::get_highest_version_replicaset on the answer `l` of the list call
get_highest_version_replicaset(l) ==
    IF l.err THEN Err("Kube") ELSE highest_from(l.items, 1, Version_new(0, 0, 0), None)

-----------------------------------------------------------------------------
(* The platform's answers during a tracked session *)

SessCounts == 0..MaxReplicas

SessConds ==
    {None,
     Some(<<Cond("Progressing", Some("NewReplicaSetAvailable"))>>),
     Some(<<Cond("Progressing", Some("ReplicaSetUpdated"))>>)}

\* the answers the get of a status check can have, given the kind and the
\* State; the replica sets are not listed yet
SessionStatusObs(k, st) ==
    CASE k = "Deployment" /\ st.hash = None ->
            {StatusObs(d, NotCalled) : d \in DeployObjs(SessCounts, SessConds)}
      [] k = "Deployment" /\ st.hash # None ->
            {StatusObs(d, NotCalled) :
                d \in {GetErr, NoStatus,
                       DeployStatus(Some(MaxReplicas), Some(1), Some(1),
                                    Some(<<Cond("Progressing", Some("ReplicaSetUpdated"))>>))}}
      [] k = "StatefulSet" ->
            {StatusObs(s, NotCalled) : s \in StsObjs(SessCounts, SessCounts)}
      [] k = "DaemonSet" ->
            {StatusObs(s, NotCalled) : s \in DsObjs(SessCounts)}

\* the replica sets the pinning step can be shown: their status is not read
PinSets ==
    {ReplicaSetObj(0, None, hv[1], hv[2]) :
        hv \in {<<Some("h1"), Some(Label_1_9_0)>>, <<Some("h2"), Some(Label_1_10_0)>>,
                <<Some("h1"), Some(Label_0_0_0)>>, <<None, Some(Label_2_0_0)>>,
                <<Some("h2"), None>>, <<Some("h1"), Some(Label_latest)>>,
                <<Some("h3"), Some(Label_1_10_0_rc1)>>}}
PinLists ==
    {ListErr, Listed(<<>>)} \cup {Listed(<<a>>) : a \in PinSets}
    \cup {Listed(<<a, b>>) : a \in PinSets, b \in PinSets}

\* the workload object infer_parameters reads
LabelSelector(malformed, terms) == [malformed |-> malformed, terms |-> terms]
NativeStrategy(max_unavailable, max_surge) ==
    [max_unavailable |-> max_unavailable, max_surge |-> max_surge]
NativeStrategies ==
    {None,
     Some(NativeStrategy(None, None)),
     Some(NativeStrategy(Some(IntVal(1)), Some(IntVal(0)))),
     Some(NativeStrategy(Some(IntVal(0)), Some(IntVal(1)))),
     Some(NativeStrategy(Some(StrVal(<<"2", "5", "%">>)), Some(StrVal(<<"2", "5", "%">>)))),
     Some(NativeStrategy(Some(StrVal(<<"1", "0", "0", "%">>)), Some(IntVal(0))))}
PodSpecs == {Some(<<None>>), Some(<<Some(4), Some(10)>>)}
Workload(spec, st) == [err |-> FALSE, spec |-> spec, status |-> st]
WorkloadErr == [err |-> TRUE, spec |-> None, status |-> None]
WorkloadSpecs(R) ==
    {None} \cup
    {Some([replicas |-> n, selector |-> sel, rolling_update |-> ru, podspec |-> ps]) :
        n \in R,
        sel \in {LabelSelector(FALSE, {AppTerm}), LabelSelector(TRUE, {})},
        ru \in NativeStrategies, ps \in PodSpecs}
WorkloadStatuses(k) ==
    {None} \cup
    {Some([replicas |-> n, desired_number_scheduled |-> m]) :
        n \in IF k = "Deployment" THEN {None, Some(MaxReplicas)} ELSE {Some(MaxReplicas)},
        m \in IF k = "DaemonSet" THEN SessCounts ELSE {0}}
InferObjs(k) ==
    {WorkloadErr} \cup
    {Workload(sp, st) :
        sp \in WorkloadSpecs(IF k = "DaemonSet" THEN {None} ELSE Opt(SessCounts)),
        st \in WorkloadStatuses(k)}

-----------------------------------------------------------------------------
(* term.rs: workload_rollout *)

\* the range of rounds, had it been inclusive
PollRangeEnd_inclusive == 20 + 1

\* for i in 1..20
PollRangeEnd == 20
\* while waited < waittime / 20
SleepDivisor == 20
\* poll_duration, in seconds
PollDurationSecs == 1

NoState == State(None, 0, {})

\* Rollout::debug has not been called: calls counts its calls, pods is the
\* list debug_pods walks, k the pod it stands at, fetched the pods whose logs
\* were asked for with the answer each got, outcome how the call ended (none,
\* ok, err, panic)
NoDebug == [calls |-> 0, listed |-> FALSE, pods |-> <<>>, k |-> 0,
            fetched |-> <<>>, outcome |-> "none"]
Returned(ok, st) == Some([ok |-> ok, state |-> st])

Init ==
    /\ kind \in Kinds
    /\ pc = "infer"
    /\ params = None
    /\ it = None
    /\ waittime = 0
    /\ state = NoState
    /\ i = 0
    /\ obs = NoObs
    /\ rr = NoResult
    /\ result = "none"
    /\ ret = None
    /\ slept = 0
    /\ waited = 0
    /\ nchecks = 0
    /\ dbg = NoDebug

\* workload_rollout returns Err(..) or unwinds
Abort(r) ==
    /\ pc' = "done"
    /\ result' = IF r.tag = "err" THEN "error" ELSE "panic"
    /\ ret' = None

\* workload_rollout returns Ok((ok, state))
Return(ok, st) ==
    /\ pc' = "done"
    /\ result' = IF ok THEN "success" ELSE "timeout"
    /\ ret' = Returned(ok, st)

\* line 20: r.infer_parameters().await?
Infer ==
    /\ pc = "infer"
    /\ \E w \in InferObjs(kind) :
          LET p == infer_parameters(kind, w)
          IN  /\ obs' = [call |-> "infer", obj |-> w]
              /\ IF p.tag = "ok"
                 THEN params' = Some(p.v) /\ pc' = "estimate" /\ UNCHANGED <<result, ret>>
                 ELSE params' = None /\ Abort(p)
    /\ UNCHANGED <<dbg, kind, it, waittime, state, i, rr, slept, waited, nchecks>>

\* line 22: estimate::wait_time(&params), up to the loop of rollout_iterations
EstimateEnter ==
    /\ pc = "estimate"
    /\ LET wp == wait_time_params(params[1])
           ru == unwrap_or(wp.rolling_update, RolloutStrategy_default)
           l == rollout_iterations_enter(ru, wp.min_replicas)
       IN  IF l.tag = "ok"
           THEN it' = Some(l.v) /\ pc' = "iterate" /\ UNCHANGED <<result, ret>>
           ELSE it' = None /\ Abort(l)
    /\ obs' = NoObs
    /\ UNCHANGED <<dbg, kind, params, waittime, state, i, rr, slept, waited, nchecks>>

\* one pass through the loop of rollout_iterations that adds pods to newrs
IterStep ==
    /\ pc = "iterate"
    /\ rollout_iterations_continues(it[1])
    /\ ~rollout_iterations_stalls(it[1])
    /\ it' = Some(rollout_iterations_body(it[1]))
    /\ UNCHANGED <<dbg, kind, pc, params, waittime, state, i, obs, rr, result, ret, slept, waited, nchecks>>

\* the passes of a loop that stalls, taken together: the session unwinds with
\* the panic of line 153, or stays in the loop for ever (pc = "spin")
IterStall ==
    /\ pc = "iterate"
    /\ rollout_iterations_stalls(it[1])
    /\ \E overflow_checks \in Builds :
          LET r == rollout_iterations_stalled(overflow_checks)
          IN  IF r.tag = "panic"
              THEN it' = None /\ Abort(r)
              ELSE it' = it /\ pc' = "spin" /\ UNCHANGED <<result, ret>>
    /\ UNCHANGED <<dbg, kind, params, waittime, state, i, obs, rr, slept, waited, nchecks>>

\* the loop is left: the rest of estimate_wait_time, then lines 24-36, the
\* State and the conversion of the selector; params is not read again
EstimateExit ==
    /\ pc = "iterate"
    /\ ~rollout_iterations_continues(it[1])
    /\ waittime' = estimate_wait_time_of(wait_time_params(params[1]), it[1].iters)
    /\ IF params[1].selector.malformed
       THEN /\ state' = State(None, params[1].min_replicas, {})
            /\ Abort(Err("KubeInvariant"))
       ELSE /\ state' = State(None, params[1].min_replicas, params[1].selector.terms)
            /\ pc' = "initial"
            /\ UNCHANGED <<result, ret>>
    /\ it' = None
    /\ params' = None
    /\ UNCHANGED <<dbg, kind, i, obs, rr, slept, waited, nchecks>>

\* the State after a status check, had the check written the minimum it
\* waits for back into the State
state_after_check_raises_minimum(st, r) ==
    IF r.tag = "ok" THEN [st EXCEPT !.min_replicas = r.expected] ELSE st

\* r.status(&state): the State is borrowed immutably; rollout_status_deploy
\* raises a local copy (`let mut minimum = state.min_replicas`, rollout.rs 142)
state_after_check(st, r) == st

\* initial_decision, had the check before the loop used `?` as the rounds do
initial_decision_propagates(r) ==
    IF r.tag # "ok" THEN "abort"
    ELSE IF r.ok THEN "return"
    ELSE "continue"

\* lines 39-48: what becomes of the Result of the check before the loop: an
\* Err is logged and dropped
initial_decision(r) ==
    IF r.tag = "panic" THEN "abort"
    ELSE IF r.tag = "ok" /\ r.ok THEN "return"
    ELSE "continue"

\* poll_decision, had a round kept polling after ok
poll_decision_keeps_polling(r) ==
    IF r.tag # "ok" THEN "abort"
    ELSE "continue"

\* poll_decision, had a round dropped an Err as the check before the loop does
poll_decision_swallows(r) ==
    IF r.tag = "panic" THEN "abort"
    ELSE IF r.tag = "ok" /\ r.ok THEN "return"
    ELSE "continue"

\* poll_decision, had a round returned on any Outcome, complete or not
poll_decision_returns_on_any(r) ==
    IF r.tag # "ok" THEN "abort"
    ELSE "return"

\* lines 107 and 114-117: what becomes of the Result of a round's check
poll_decision(r) ==
    IF r.tag # "ok" THEN "abort"
    ELSE IF r.ok THEN "return"
    ELSE "continue"

\* lines 39-48: the status check before the loop
InitialCheck ==
    /\ pc = "initial"
    /\ \E o \in SessionStatusObs(kind, state) :
          LET r == status(kind, o, state)
          IN  /\ obs' = o
              /\ rr' = r
              /\ state' = state_after_check(state, r)
              /\ CASE initial_decision(r) = "return" -> Return(TRUE, state')
                   [] initial_decision(r) = "abort" -> Abort(r)
                   [] OTHER -> pc' = "grace" /\ UNCHANGED <<result, ret>>
    /\ nchecks' = nchecks + 1
    /\ UNCHANGED <<dbg, kind, params, it, waittime, i, slept, waited>>

\* line 50: sleep(poll_duration)
GraceSleep ==
    /\ pc = "grace"
    /\ slept' = slept + PollDurationSecs
    /\ pc' = "pin"
    /\ obs' = NoObs
    /\ rr' = NoResult
    /\ UNCHANGED <<dbg, kind, params, it, waittime, state, i, result, ret, waited, nchecks>>

\* the selector after the pin, had the new term taken the place of the old ones
pin_selector_replaces(selector, h) == {HashTerm(h)}

\* lines 63-65: state.selector.extend(Expression::Equal("pod-template-hash", h))
pin_selector(selector, h) == selector \cup {HashTerm(h)}

\* lines 58-68: pin the hash of the replica set with the highest version
PinDeployment ==
    /\ pc = "pin" /\ kind = "Deployment"
    /\ \E l \in PinLists :
          LET found == get_highest_version_replicaset(l)
          IN  /\ obs' = [call |-> "pin", rs |-> l]
              /\ IF found.tag # "ok" THEN Abort(found) /\ UNCHANGED state
                 ELSE /\ pc' = "loop"
                      /\ UNCHANGED <<result, ret>>
                      /\ IF is_some(found.v) /\ is_some(found.v[1].labels.pod_template_hash)
                         THEN LET h == found.v[1].labels.pod_template_hash[1]
                              IN  state' = [state EXCEPT !.hash = Some(h),
                                              !.selector = pin_selector(state.selector, h)]
                         ELSE UNCHANGED state
    /\ UNCHANGED <<dbg, kind, params, it, waittime, i, rr, slept, waited, nchecks>>

\* lines 69-77: pin the update revision of the StatefulSet
PinStatefulSet ==
    /\ pc = "pin" /\ kind = "StatefulSet"
    /\ \E s \in StsObjs(SessCounts, SessCounts) :
          LET summary == IF s.err THEN Err("Kube") ELSE StatefulSummary_try_from(s)
          IN  /\ obs' = [call |-> "pin", obj |-> s]
              /\ IF summary.tag # "ok" THEN Abort(summary) /\ UNCHANGED state
                 ELSE /\ pc' = "loop"
                      /\ UNCHANGED <<result, ret>>
                      /\ IF is_some(summary.update_revision)
                         THEN state' = [state EXCEPT !.hash = summary.update_revision]
                         ELSE UNCHANGED state
    /\ UNCHANGED <<dbg, kind, params, it, waittime, i, rr, slept, waited, nchecks>>

\* line 78: Kind::DaemonSet => unimplemented!()
PinDaemonSet ==
    /\ pc = "pin" /\ kind = "DaemonSet"
    /\ Abort(Panic("not implemented"))
    /\ UNCHANGED <<dbg, kind, params, it, waittime, state, i, obs, rr, slept, waited, nchecks>>

\* lines 98-102: the head of a round, up to the first test of the inner loop
PollRound ==
    /\ pc = "loop"
    /\ i + 1 < PollRangeEnd
    /\ i' = i + 1
    /\ waited' = 0
    /\ pc' = IF 0 < waittime \div SleepDivisor THEN "sleep" ELSE "check"
    /\ obs' = NoObs
    /\ rr' = NoResult
    /\ UNCHANGED <<dbg, kind, params, it, waittime, state, result, ret, slept, nchecks>>

\* lines 102-106: one pass of the inner loop, a sleep of one second, up to
\* the next test of the loop
PollSleep ==
    /\ pc = "sleep"
    /\ waited' = waited + 1
    /\ slept' = slept + 1
    /\ pc' = IF waited' < waittime \div SleepDivisor THEN "sleep" ELSE "check"
    /\ UNCHANGED <<dbg, kind, params, it, waittime, state, i, obs, rr, result, ret, nchecks>>

\* rollout_status_deploy, lines 135-145: the get is answered with a
\* Deployment that can be summarised and a hash is pinned, so the replica
\* sets are listed next
status_lists(k, o, st) ==
    /\ k = "Deployment"
    /\ is_some(st.hash)
    /\ ~o.obj.err
    /\ DeploySummary_try_from(o.obj).tag = "ok"

\* lines 107-117: what a round does with the answers `o` of its status check
PollCheckEnds(o) ==
    LET r == status(kind, o, state)
    IN  /\ obs' = o
        /\ rr' = r
        /\ state' = state_after_check(state, r)
        /\ CASE poll_decision(r) = "return" -> Return(TRUE, state')
             [] poll_decision(r) = "abort" -> Abort(r)
             [] OTHER -> pc' = "loop" /\ UNCHANGED <<result, ret>>
        /\ nchecks' = nchecks + 1
        /\ UNCHANGED <<dbg, kind, params, it, waittime, i, slept, waited>>

\* line 107: the status check of a round, up to the answer of its get; the
\* check ends there unless the replica sets are listed
PollCheck ==
    /\ pc = "check"
    /\ \E o \in SessionStatusObs(kind, state) :
          IF status_lists(kind, o, state)
          THEN /\ obs' = o
               /\ pc' = "check_rs"
               /\ UNCHANGED <<dbg, kind, params, it, waittime, state, i, rr, result, ret,
                              slept, waited, nchecks>>
          ELSE PollCheckEnds(o)

\* rollout.rs 145: the list of the replica sets under the pinned selector is
\* answered, and the check of the round ends
PollCheckList ==
    /\ pc = "check_rs"
    /\ \E l \in PinnedLists(SessCounts, state.hash[1]) :
          PollCheckEnds(StatusObs(obs.obj, l))

\* line 119: the range is exhausted
Timeout ==
    /\ pc = "loop"
    /\ ~(i + 1 < PollRangeEnd)
    /\ Return(FALSE, state)
    /\ UNCHANGED <<dbg, kind, params, it, waittime, state, i, obs, rr, slept, waited, nchecks>>

Next ==
    \/ Infer
    \/ EstimateEnter
    \/ IterStep
    \/ IterStall
    \/ EstimateExit
    \/ InitialCheck
    \/ GraceSleep
    \/ PinDeployment
    \/ PinStatefulSet
    \/ PinDaemonSet
    \/ PollRound
    \/ PollSleep
    \/ PollCheck
    \/ PollCheckList
    \/ Timeout

Spec == Init /\ [][Next]_vars

-----------------------------------------------------------------------------
(* The status evaluators on their own: Init draws a kind, a State and the  *)
(* platform's answer to the get, EvalStatus and EvalStatusList apply        *)
(* Rollout::status.                                                        *)

EvalCounts == 0..MaxEval

EvalInputs ==
    \* Deployment, no hash pinned: the replica sets are not listed
    {<<"Deployment", State(None, m, {AppTerm}), StatusObs(d, NotCalled)>> :
        m \in EvalCounts, d \in DeployObjs(EvalCounts, CondLists)}
    \cup
    \* Deployment, hash pinned: the replica sets under the pinned selector
    {<<"Deployment", State(Some("h1"), m, {AppTerm, HashTerm("h1")}),
       StatusObs(d, NotCalled)>> :
        m \in EvalCounts,
        d \in {GetErr, NoStatus,
               DeployStatus(Some(MaxEval), Some(MaxEval), None,
                            Some(<<Cond("Progressing", Some("ReplicaSetUpdated"))>>))}}
    \cup
    {<<"StatefulSet", State(h, m, {AppTerm}), StatusObs(s, NotCalled)>> :
        h \in {None, Some("r1")}, m \in EvalCounts,
        s \in StsObjs(EvalCounts, {MaxEval})}
    \cup
    {<<"DaemonSet", State(None, m, {AppTerm}), StatusObs(s, NotCalled)>> :
        m \in EvalCounts, s \in DsObjs(EvalCounts)}

InitStatus ==
    \E inp \in EvalInputs :
        /\ kind = inp[1]
        /\ state = inp[2]
        /\ obs = inp[3]
        /\ pc = "status"
        /\ rr = NoResult
        /\ params = None
        /\ it = None
        /\ waittime = 0
        /\ i = 0
        /\ result = "none"
        /\ ret = None
        /\ slept = 0
        /\ waited = 0
        /\ nchecks = 0
        /\ dbg = NoDebug

\* Rollout::status up to the answer of its get, which Init drew; the check
\* ends there unless the replica sets are listed
EvalStatus ==
    /\ pc = "status"
    /\ IF status_lists(kind, obs, state)
       THEN pc' = "status_rs" /\ UNCHANGED <<rr, nchecks>>
       ELSE /\ rr' = status(kind, obs, state)
            /\ nchecks' = nchecks + 1
            /\ pc' = "status_done"
    /\ UNCHANGED <<dbg, kind, params, it, waittime, state, i, obs, result, ret, slept, waited>>

\* rollout.rs 145: the list of the replica sets, with counts in C, is answered
\* and the check ends
EvalStatusList(C) ==
    /\ pc = "status_rs"
    /\ \E l \in PinnedLists(C, state.hash[1]) :
          /\ obs' = StatusObs(obs.obj, l)
          /\ rr' = status(kind, obs', state)
    /\ nchecks' = nchecks + 1
    /\ pc' = "status_done"
    /\ UNCHANGED <<dbg, kind, params, it, waittime, state, i, result, ret, slept, waited>>

NextStatus ==
    \/ EvalStatus
    \/ EvalStatusList(EvalCounts)

SpecStatus == InitStatus /\ [][NextStatus]_vars

\* the status object of a successful get
StatusOf(o) == o.obj.status[1]
\* a status check has returned an Outcome
Evaluated(k) == pc = "status_done" /\ kind = k /\ rr.tag = "ok"

-----------------------------------------------------------------------------
(* C1..C4: the evaluators *)

\* some Progressing condition of the Deployment carries the reason
\* NewReplicaSetAvailable
ProgressingSaysAvailable(st) ==
    /\ is_some(st.conditions)
    /\ \E k \in 1..Len(st.conditions[1]) :
          /\ st.conditions[1][k].type_ = "Progressing"
          /\ st.conditions[1][k].reason = Some("NewReplicaSetAvailable")

\* C1: a Deployment status check with no hash pinned reports ok exactly when
\* ready = replicas, ready >= minimum, and the Progressing condition's reason is
\* NewReplicaSetAvailable or unavailable <= 0 (absent counts read as 0); so
\* ready = replicas = MaxEval (5) with unavailable = 0 is ok for every minimum.
C1_DeployFallbackOk ==
    (Evaluated("Deployment") /\ state.hash = None) =>
        LET st == StatusOf(obs)
            ready == unwrap_or(st.ready_replicas, 0)
            replicas == unwrap_or(st.replicas, 0)
            unavailable == unwrap_or(st.unavailable_replicas, 0)
        IN  /\ rr.ok <=> (/\ ready = replicas
                          /\ ready >= state.min_replicas
                          /\ (ProgressingSaysAvailable(st) \/ unavailable <= 0))
            /\ (ready = 5 /\ replicas = 5 /\ unavailable = 0
                    /\ state.min_replicas <= 5) => rr.ok

C1_Witness ==
    /\ Evaluated("Deployment") /\ state.hash = None
    /\ StatusOf(obs).ready_replicas = Some(5)
    /\ StatusOf(obs).replicas = Some(5)
    /\ StatusOf(obs).unavailable_replicas = Some(0)
    /\ StatusOf(obs).conditions = None
    /\ state.min_replicas = 3
    /\ rr.ok

\* C2: with a pinned hash and a matched replica set the effective minimum is
\* max(state.min_replicas, the replica set's replicas); expected is that
\* minimum, progress is the replica set's ready count, and ok holds exactly
\* when the ready count equals the effective minimum.
C2_DeployPinnedOk ==
    (Evaluated("Deployment") /\ state.hash # None) =>
        LET rs == obs.rs.items[1].status[1]
            ready == unwrap_or(rs.ready_replicas, 0)
            effective == Max(state.min_replicas, rs.replicas)
        IN  /\ rr.expected = effective
            /\ rr.progress = ready
            /\ rr.ok <=> (ready = effective)

\* ready = 3, minimum 3, and the replica set reports 4 replicas: not ok
C2_Witness ==
    /\ Evaluated("Deployment") /\ state.hash # None
    /\ state.min_replicas = 3
    /\ obs.rs.items[1].status[1].ready_replicas = Some(3)
    /\ obs.rs.items[1].status[1].replicas = 4
    /\ rr.expected = 4 /\ rr.progress = 3 /\ ~rr.ok

\* C3: a StatefulSet status check reports ok exactly when updated_replicas >=
\* minimum, updated_replicas = ready and the update revision equals the tracked
\* hash; progress is updated_replicas and expected is the minimum.
C3_StatefulSetOk ==
    Evaluated("StatefulSet") =>
        LET st == StatusOf(obs)
            updated == unwrap_or(st.updated_replicas, 0)
            ready == unwrap_or(st.ready_replicas, 0)
        IN  /\ rr.ok <=> (/\ updated >= state.min_replicas
                          /\ updated = ready
                          /\ st.update_revision = state.hash)
            /\ rr.progress = updated
            /\ rr.expected = state.min_replicas

\* identical counts 3/3 with minimum 3, but the revision is not the tracked one
C3_Witness ==
    /\ Evaluated("StatefulSet")
    /\ state.hash = Some("r1") /\ state.min_replicas = 3
    /\ StatusOf(obs).updated_replicas = Some(3)
    /\ StatusOf(obs).ready_replicas = Some(3)
    /\ StatusOf(obs).update_revision = Some("r2")
    /\ ~rr.ok /\ rr.progress = 3

\* C4: a DaemonSet status check reports ok exactly when desired >= minimum and
\* updated is present and equals desired; progress is updated when present,
\* else ready.
C4_DaemonSetOk ==
    Evaluated("DaemonSet") =>
        LET st == StatusOf(obs)
        IN  /\ rr.ok <=> (/\ st.desired_number_scheduled >= state.min_replicas
                          /\ is_some(st.updated_number_scheduled)
                          /\ st.updated_number_scheduled[1] = st.desired_number_scheduled)
            /\ rr.progress = IF is_some(st.updated_number_scheduled)
                             THEN st.updated_number_scheduled[1]
                             ELSE st.number_ready

\* desired = 4, updated = 3: not ok, progress 3
C4_Witness ==
    /\ Evaluated("DaemonSet")
    /\ StatusOf(obs).desired_number_scheduled = 4
    /\ StatusOf(obs).updated_number_scheduled = Some(3)
    /\ StatusOf(obs).number_ready = 4
    /\ ~rr.ok /\ rr.progress = 3

-----------------------------------------------------------------------------
(* C5..C10: the tracking loop *)

\* the state right after the status check before the loop
AfterInitialCheck == obs.call = "status" /\ i = 0 /\ pc \in {"grace", "done"}
\* the state right after the status check of a round
AfterPollCheck == obs.call = "status" /\ i >= 1 /\ pc \in {"loop", "done"}

\* the platform shows a workload that runs replicas fully rolled out: every
\* replica updated and ready, none unavailable, at least `minimum` of them
FullyRolledOut(k, o, minimum) ==
    /\ ~o.obj.err
    /\ o.obj.status # None
    /\ minimum >= 1
    /\ LET st == o.obj.status[1]
       IN  CASE k = "Deployment" ->
                  /\ is_some(st.replicas)
                  /\ st.ready_replicas = st.replicas
                  /\ st.replicas[1] >= minimum
                  /\ unwrap_or(st.unavailable_replicas, 0) = 0
             [] k = "StatefulSet" ->
                  /\ st.ready_replicas = Some(st.replicas)
                  /\ st.updated_replicas = Some(st.replicas)
                  /\ st.replicas >= minimum
                  /\ is_some(st.update_revision)
                  /\ st.update_revision = st.current_revision
             [] k = "DaemonSet" ->
                  /\ st.number_ready = st.desired_number_scheduled
                  /\ st.updated_number_scheduled = Some(st.desired_number_scheduled)
                  /\ st.desired_number_scheduled >= minimum

\* C5: when the workload, of any kind, is fully rolled out as tracking starts,
\* the check before the loop reports complete and the session returns success
\* with no sleep, no pinning and no round.
C5_SettledReturnsAtOnce ==
    (AfterInitialCheck /\ FullyRolledOut(kind, obs, state.min_replicas)) =>
        /\ rr.tag = "ok" /\ rr.ok
        /\ pc = "done" /\ result = "success"
        /\ slept = 0 /\ nchecks = 1 /\ state.hash = None

\* C6: the loop makes at most 19 status checks; when the 19th has reported
\* ok = false the session returns (false, state), a timeout, and the state it
\* returns is the State as pinning left it: no round changes it.
C6_TimeoutAfter19 ==
    [][/\ (i' >= 1 => nchecks' - 1 <= 19)
       /\ (pc \in {"loop", "check"} => state' = state)
       /\ (pc = "loop" /\ i = 19 =>
              result' = "timeout" /\ ret' = Returned(FALSE, state))
       /\ (result' = "timeout" =>
              pc = "loop" /\ i = 19 /\ nchecks = 20 /\ rr.tag = "ok" /\ ~rr.ok)]_vars

C6_Witness ==
    /\ pc = "done" /\ result = "timeout"
    /\ kind = "Deployment" /\ state.hash = Some("h2")
    /\ ret = Returned(FALSE, state)
    /\ i = 19 /\ nchecks = 20

\* C7: as soon as a round's status check returns ok = true the session returns
\* success, and nothing sleeps or checks the status after that.
C7_OkReturnsSuccess ==
    [][/\ (obs'.call = "status" /\ i' >= 1 /\ rr'.tag = "ok" /\ rr'.ok) =>
              (pc' = "done" /\ result' = "success" /\ ret' = Returned(TRUE, state)
               /\ nchecks' = i' + 1)
       /\ (result = "success" => nchecks' = nchecks /\ slept' = slept)]_vars

C7_Witness ==
    /\ AfterPollCheck /\ i = 3
    /\ rr.tag = "ok" /\ rr.ok
    /\ pc = "done" /\ result = "success" /\ nchecks = 4

\* C8: an Err of the status check before the loop does not end the session: it
\* goes on to the grace sleep as after an incomplete report, nothing returned,
\* nothing slept, nothing pinned yet.
C8_InitialErrorSwallowed ==
    (obs.call = "status" /\ i = 0 /\ rr.tag = "err") =>
        /\ pc = "grace" /\ result = "none" /\ ret = None
        /\ slept = 0 /\ nchecks = 1 /\ state.hash = None

C8_Witness ==
    /\ obs.call = "status" /\ i = 0 /\ rr.tag = "err"
    /\ pc = "grace" /\ result = "none"

\* C9: an Err of a round's status check ends the session with that error: no
\* later round, no success, no timeout, no retry.
C9_PollErrorFatal ==
    (obs.call = "status" /\ i >= 1 /\ rr.tag = "err") =>
        /\ pc = "done" /\ result = "error" /\ ret = None
        /\ nchecks = i + 1

C9_Witness ==
    /\ obs.call = "status" /\ i = 2 /\ rr.tag = "err"
    /\ pc = "done" /\ result = "error" /\ nchecks = 3

\* C10: every session terminates, and ends as a success, an error or a timeout:
\* a session that is not over can take a step, and one that is over ended in
\* one of the three ways.
C10_EndsOneOfThree ==
    /\ pc = "done" => result \in {"success", "error", "timeout"}
    /\ pc # "done" => ENABLED Next


-----------------------------------------------------------------------------
(* The estimate on its own: estimate_wait_time over a range of strategies *)

\* the values a rollingUpdate field can hold
EstPolicies ==
    {None, Some(IntVal(0)), Some(IntVal(1)), Some(IntVal(2)), Some(IntVal(3)),
     Some(IntVal(-2)),
     Some(StrVal(<<"0", "%">>)), Some(StrVal(<<"1", "0", "%">>)),
     Some(StrVal(<<"2", "5", "%">>)), Some(StrVal(<<"5", "0">>)),
     Some(StrVal(<<"1", "0", "0", "%">>)), Some(StrVal(<<"1", "5", "0", "%">>)),
     Some(StrVal(<<"x", "%">>))}

\* the strategies infer_parameters can hand on, by kind
EstStrategies(k) ==
    {None} \cup
    IF k = "StatefulSet"
    THEN {Some(RolloutStrategy_from_sts(NativeStrategy(u, None))) : u \in EstPolicies}
    ELSE {Some(RolloutStrategy_from_deploy(NativeStrategy(u, sg))) :
             u \in EstPolicies, sg \in EstPolicies}

InitEstimate ==
    /\ kind \in Kinds
    /\ pc = "estimate"
    /\ params \in {Some(Inference(ru, sel, n, Some(10))) :
                      ru \in EstStrategies(kind),
                      sel \in {LabelSelector(FALSE, {AppTerm}), LabelSelector(TRUE, {})},
                      n \in 0..MaxEstReplicas}
    /\ it = None
    /\ waittime = 0
    /\ state = NoState
    /\ i = 0
    /\ obs = NoObs
    /\ rr = NoResult
    /\ result = "none"
    /\ ret = None
    /\ slept = 0
    /\ waited = 0
    /\ nchecks = 0
    /\ dbg = NoDebug

NextEstimate ==
    \/ EstimateEnter
    \/ IterStep
    \/ IterStall
    \/ EstimateExit

SpecEstimate == InitEstimate /\ [][NextEstimate]_vars

\* the strategy estimate_wait_time works with, and the replica count
EstStrategy == unwrap_or(params[1].strategy, RolloutStrategy_default)
EstReplicas == params[1].min_replicas
\* inside rollout_iterations, and at the point where it returns
InLoop == pc = "iterate"
AtLoopExit == pc = "iterate" /\ ~rollout_iterations_continues(it[1])

-----------------------------------------------------------------------------
(* Claims about the estimate *)

\* C11: rollout_iterations terminates for every replica count and every
\* strategy whose resolved surge + unavailable is greater than zero: once the
\* two are resolved, the loop that follows is left
C11_IterationsTerminate ==
    (InLoop /\ it[1].surge + it[1].unavail > 0)
        => \A overflow_checks \in Builds :
              rollout_iterations_loop(it[1], overflow_checks).tag = "ok"

\* the percentage a policy string stands for
PercentNumber(str) ==
    CASE str = <<"0", "%">> -> 0
      [] str = <<"1", "0", "%">> -> 10
      [] str = <<"2", "5", "%">> -> 25
      [] str = <<"2", "5">> -> 25
      [] str = <<"5", "0">> -> 50
      [] str = <<"1", "0", "0", "%">> -> 100
      [] str = <<"1", "5", "0", "%">> -> 150
\* r is x/100 rounded up, rounded down
IsCeilOfHundredth(r, x) == r * 100 >= x /\ (r - 1) * 100 < x
IsFloorOfHundredth(r, x) == r * 100 <= x /\ (r + 1) * 100 > x

\* C13: for a Percentage policy p and a replica count n, to_replicas_ceil is
\* ceil(n*p/100) and to_replicas_floor is floor(n*p/100); for an absolute
\* policy k both are k
C13_PolicyResolution ==
    InLoop =>
        /\ is_some(EstStrategy.max_surge) =>
              LET sg == EstStrategy.max_surge[1]
              IN  IF sg.tag = "Percentage"
                  THEN IsCeilOfHundredth(it[1].surge, EstReplicas * PercentNumber(sg.v))
                  ELSE it[1].surge = sg.v
        /\ is_some(EstStrategy.max_unavailable) =>
              LET un == EstStrategy.max_unavailable[1]
              IN  IF un.tag = "Percentage"
                  THEN IsFloorOfHundredth(it[1].unavail, EstReplicas * PercentNumber(un.v))
                  ELSE it[1].unavail = un.v

\* C13 witness: 25% of 3 replicas resolved both ways, 1 rounded up and 0
\* rounded down
C13_Witness ==
    /\ InLoop
    /\ EstReplicas = 3
    /\ EstStrategy.max_surge = Some(Percentage(<<"2", "5", "%">>))
    /\ EstStrategy.max_unavailable = Some(Percentage(<<"2", "5", "%">>))
    /\ it[1].surge = 1
    /\ it[1].unavail = 0

\* C12 as stated: for a fixed strategy rollout_iterations is non-decreasing in
\* the replica count, and at least 1 whenever replicas > 0 and
\* surge + unavailable > 0
C12_MonotoneInReplicas ==
    AtLoopExit =>
        /\ \A n \in 0..EstReplicas, overflow_checks \in Builds :
              LET r == rollout_iterations(EstStrategy, n, overflow_checks)
              IN  r.tag = "ok" => r.v <= it[1].iters
        /\ (EstReplicas > 0 /\ it[1].surge + it[1].unavail > 0) => it[1].iters >= 1

\* a strategy of two absolute counts that are not both zero
AbsoluteCounts(ru) ==
    /\ is_some(ru.max_surge) /\ ru.max_surge[1].tag = "Unsigned"
    /\ is_some(ru.max_unavailable) /\ ru.max_unavailable[1].tag = "Unsigned"
    /\ ru.max_surge[1].v + ru.max_unavailable[1].v > 0

\* C12 as amended: for a fixed strategy of two absolute counts with
\* surge + unavailable > 0 (surge 0 included) rollout_iterations returns for
\* every replica count above the unavailable count and is non-decreasing over
\* those counts, and every result returned for replicas > 0 is at least 1
C12_MonotoneAbsolute ==
    /\ AtLoopExit =>
          /\ AbsoluteCounts(EstStrategy) =>
                \A n \in 0..EstReplicas, overflow_checks \in Builds :
                    n > EstStrategy.max_unavailable[1].v =>
                        LET r == rollout_iterations(EstStrategy, n, overflow_checks)
                        IN  r.tag = "ok" /\ r.v <= it[1].iters
          /\ EstReplicas > 0 => it[1].iters >= 1
    /\ (InLoop /\ AbsoluteCounts(EstStrategy)
            /\ EstReplicas > EstStrategy.max_unavailable[1].v)
          => ~rollout_iterations_stalls(it[1])

\* C12 witness: a strategy of a StatefulSet, surge 0 and 2 unavailable, does 5
\* replicas in 3 passes where 3 replicas take 2
C12_Witness ==
    /\ AtLoopExit
    /\ kind = "StatefulSet"
    /\ EstStrategy.max_surge = Some(Unsigned(0))
    /\ EstStrategy.max_unavailable = Some(Unsigned(2))
    /\ EstReplicas = 5
    /\ it[1].iters = 3
    /\ \A overflow_checks \in Builds :
          rollout_iterations(EstStrategy, 3, overflow_checks) = Value(2)

\* the strategy converted from a platform object with explicit 25% / 25%
ExplicitQuarter ==
    RolloutStrategy_from_deploy(
        NativeStrategy(Some(StrVal(<<"2", "5", "%">>)), Some(StrVal(<<"2", "5", "%">>))))
\* the strategy converted from a platform object with both fields absent
BothAbsent == RolloutStrategy_from_deploy(NativeStrategy(None, None))

\* C14: for every replica count rollout_iterations gives the same result for
\* the strategy converted from explicit 25% / 25%, the Default strategy and
\* the strategy with both fields absent
C14_QuarterEquivalence ==
    (AtLoopExit /\ EstStrategy \in {ExplicitQuarter, RolloutStrategy_default, BothAbsent})
        => \A ru \in {ExplicitQuarter, RolloutStrategy_default, BothAbsent},
              overflow_checks \in Builds :
              rollout_iterations(ru, EstReplicas, overflow_checks) = Value(it[1].iters)

\* C14 witness: explicit 25% / 25% over 7 replicas returned 3 passes
C14_Witness ==
    /\ AtLoopExit
    /\ params[1].strategy = Some(ExplicitQuarter)
    /\ EstReplicas = 7
    /\ it[1].iters = 3


-----------------------------------------------------------------------------
(* The evaluators over status objects whose counts may be negative (the     *)
(* counts of the platform's status objects are i32)                         *)

SignedCounts == (0 - MaxSigned)..MaxSigned

SignedInputs ==
    {<<"Deployment", State(None, m, {AppTerm}), StatusObs(d, NotCalled)>> :
        m \in 0..MaxSigned,
        d \in DeployObjs(SignedCounts, {None, Some(<<Cond("Progressing", Some("NewReplicaSetAvailable"))>>)})}
    \cup
    {<<"Deployment", State(Some("h1"), m, {AppTerm, HashTerm("h1")}),
       StatusObs(d, NotCalled)>> :
        m \in 0..MaxSigned,
        d \in {GetErr, NoStatus,
               DeployStatus(Some(MaxSigned), Some(0 - 1), Some(1), None)}}
    \cup
    {<<"StatefulSet", State(h, m, {AppTerm}), StatusObs(s, NotCalled)>> :
        h \in {None, Some("r1")}, m \in 0..MaxSigned,
        s \in StsObjs(SignedCounts, SignedCounts)}
    \cup
    {<<"DaemonSet", State(None, m, {AppTerm}), StatusObs(s, NotCalled)>> :
        m \in 0..MaxSigned, s \in DsObjs(SignedCounts)}

InitStatusSigned ==
    \E inp \in SignedInputs :
        /\ kind = inp[1]
        /\ state = inp[2]
        /\ obs = inp[3]
        /\ pc = "status"
        /\ rr = NoResult
        /\ params = None
        /\ it = None
        /\ waittime = 0
        /\ i = 0
        /\ result = "none"
        /\ ret = None
        /\ slept = 0
        /\ waited = 0
        /\ nchecks = 0
        /\ dbg = NoDebug

NextStatusSigned ==
    \/ EvalStatus
    \/ EvalStatusList(SignedCounts)

SpecStatusSigned == InitStatusSigned /\ [][NextStatusSigned]_vars

\* the status check found everything it reads: the workload with its status
\* and, when a hash is pinned, exactly one replica set with its status, its
\* hash label and an image tag that short_ver takes
NothingMissing ==
    /\ pc = "status_done"
    /\ ~obs.obj.err
    /\ obs.obj.status # None
    /\ (kind = "Deployment" /\ state.hash # None) =>
          /\ ~obs.rs.err
          /\ Len(obs.rs.items) = 1
          /\ obs.rs.items[1].status # None
          /\ obs.rs.items[1].labels.pod_template_hash # None
          /\ ReplicaSetSummary_try_from(obs.rs.items[1]).tag = "ok"

\* the Deployment path with a matched replica set
MatchedPath == kind = "Deployment" /\ state.hash # None

\* the ready count of the matched replica set, as ReplicaSetSummary holds it
MatchedReady == unwrap_or(obs.rs.items[1].status[1].ready_replicas, 0)

\* C15 as stated: for all three kinds and on every path a negative count is
\* clamped to zero: the status check returns an Outcome with progress >= 0 and
\* never an error because a count was negative
C15_NegativeClamped ==
    NothingMissing => (rr.tag = "ok" /\ rr.progress >= 0)

\* C15 as amended: the same for StatefulSet, DaemonSet and the Deployment path
\* without a matched replica set; with a matched replica set the ready count is
\* exposed as it is, and a negative one makes the status check return the
\* error KubeInvariant
C15_NegativeClampedOrError ==
    NothingMissing =>
        IF MatchedPath /\ MatchedReady < 0
        THEN rr = Err("KubeInvariant")
        ELSE rr.tag = "ok" /\ rr.progress >= 0
                /\ (MatchedPath => rr.progress = MatchedReady)

\* C15 witness: a DaemonSet reporting -1 updated pods is shown progress 0
C15_Witness ==
    /\ NothingMissing
    /\ kind = "DaemonSet"
    /\ obs.obj.status[1].updated_number_scheduled = Some(0 - 1)
    /\ rr.tag = "ok"
    /\ rr.progress = 0


-----------------------------------------------------------------------------
(* Claims about the pinning step *)

\* the pinning step of a Deployment has just run on the listed replica sets
AfterPinDeployment == kind = "Deployment" /\ obs.call = "pin"

\* every listed replica set carries a semantic version and a pod-template-hash
AllVersioned(items) ==
    \A k \in 1..Len(items) :
        /\ items[k].labels.version # None
        /\ Version_parse(items[k].labels.version[1]) # None
        /\ items[k].labels.pod_template_hash # None
VersionOf(rs) == Version_parse(rs.labels.version[1])[1]

\* C16: whenever at least one replica set matches the selector and all of
\* them carry a valid semantic-version label, the pinning step selects one
\* whose version is the maximum, sets State.hash to its pod-template-hash and
\* adds the term pod-template-hash = hash to the selector
C16_PinsHighestVersion ==
    (AfterPinDeployment /\ ~obs.rs.err /\ Len(obs.rs.items) >= 1
        /\ AllVersioned(obs.rs.items))
    => /\ pc = "loop"
       /\ \E k \in 1..Len(obs.rs.items) :
             LET h == obs.rs.items[k].labels.pod_template_hash[1]
             IN  /\ \A j \in 1..Len(obs.rs.items) :
                       ~Version_gt(VersionOf(obs.rs.items[j]), VersionOf(obs.rs.items[k]))
                 /\ state.hash = Some(h)
                 /\ HashTerm(h) \in state.selector

\* C17: for a DaemonSet whose initial status check is not complete the
\* pinning step does nothing (hash unset, selector unchanged) and the session
\* proceeds to the polling phase
C17_DaemonSetPinIsNoop ==
    [][(pc = "pin" /\ kind = "DaemonSet") => (pc' = "loop" /\ state' = state)]_vars


-----------------------------------------------------------------------------
(* rollout.rs: PodSummary *)

\* fn default_container
default_container(pod) ==
    IF pod.spec = None THEN Value(None)
    ELSE LET c == extract_container(pod.spec[1].containers, pod.default_container)
         IN  IF c.tag # "ok" THEN c ELSE Value(Some(c.v))

\* the number of ready containers among the container statuses
RECURSIVE count_ready(_)
count_ready(ss) ==
    IF ss = <<>> THEN 0
    ELSE (IF Head(ss).ready THEN 1 ELSE 0) + count_ready(Tail(ss))

\* impl TryFrom<Pod> for PodSummary
PodSummary_try_from(pod) ==
    IF pod.created_in_future THEN Panic("to_std")
    ELSE LET ss == IF pod.status = None THEN <<>>
                   ELSE unwrap_or(pod.status[1].container_statuses, <<>>)
             main == default_container(pod)
         IN  IF main.tag # "ok" THEN main
             ELSE IF main.v = None
                  THEN [tag |-> "ok", name |-> pod.name, running |-> count_ready(ss),
                        containers |-> Len(ss), version |-> None]
             ELSE IF main.v[1].image = None THEN Panic("unwrap")
             ELSE LET parts == split_colon(main.v[1].image[1])
                      ver == short_ver(parts[2])
                  IN  IF Len(parts) < 2 THEN Panic("index out of bounds")
                      ELSE IF ver.tag # "ok" THEN ver
                      ELSE [tag |-> "ok", name |-> pod.name,
                            running |-> count_ready(ss), containers |-> Len(ss),
                            version |-> Some(ver.v)]

\* a Pod, as far as it is read
ContainerStatus(ready) == [ready |-> ready]
Pod(name, statuses, containers) ==
    [name |-> name, created_in_future |-> FALSE, default_container |-> None,
     status |-> Some([container_statuses |-> Some(statuses)]),
     spec |-> Some([containers |-> containers])]

\* the pods a list under the selector can return
DebugPods ==
    {Pod("p-ready", <<ContainerStatus(TRUE)>>, <<Container("web", Some(ImageTagged))>>),
     Pod("p-down", <<ContainerStatus(FALSE)>>, <<Container("web", Some(ImageTagged))>>),
     Pod("p-half", <<ContainerStatus(TRUE), ContainerStatus(FALSE)>>,
         <<Container("web", Some(ImageWithPort)), Container("sidecar", None)>>),
     Pod("p-untagged", <<ContainerStatus(TRUE)>>, <<Container("web", Some(ImageUntagged))>>),
     Pod("p-commit", <<ContainerStatus(TRUE)>>, <<Container("web", Some(ImageOfCommit))>>),
     Pod("p-long", <<ContainerStatus(TRUE)>>, <<Container("web", Some(ImageOfLongVersion))>>),
     Pod("p-split", <<ContainerStatus(TRUE)>>,
         <<Container("web", Some(ImageOfSplitCharacter))>>),
     Pod("p-wide", <<ContainerStatus(TRUE)>>,
         <<Container("web", Some(ImageOfWideCharacters))>>),
     [Pod("p-pending", <<>>, <<Container("web", Some(ImageTagged))>>)
         EXCEPT !.status = None, !.default_container = Some("web")],
     [Pod("p-skewed", <<ContainerStatus(TRUE)>>, <<Container("web", Some(ImageTagged))>>)
         EXCEPT !.created_in_future = TRUE]}

\* answers to get_pods
PodsErr == [err |-> TRUE, items |-> <<>>]
PodsListed(items) == [err |-> FALSE, items |-> items]
PodAnswers ==
    {PodsErr, PodsListed(<<>>)} \cup {PodsListed(<<a>>) : a \in DebugPods}
    \cup {PodsListed(<<a, b>>) : a \in DebugPods, b \in DebugPods}

\* answers to the list of replica sets that debug_deployment asks for
DebugRsLists(st) ==
    IF is_some(st.hash) THEN PinnedLists(0..1, st.hash[1]) ELSE PinLists

-----------------------------------------------------------------------------
(* debug.rs: Rollout::debug, and bin/irt.rs: handle_track around it *)

\* handle_track, had it asked for diagnostics after a success
handle_decision_debugs_success(res) ==
    CASE res = "success" -> "debug"
      [] OTHER -> "end"

\* handle_track, lines 94-97: `?` on the session's result, then
\* `if !outcome { r.debug(&state).await?; }`
handle_decision(res) ==
    CASE res = "timeout" -> "debug"
      [] OTHER -> "end"

\* Rollout::debug returns or unwinds
DebugEnd(outcome) ==
    /\ pc' = "end"
    /\ dbg' = [dbg EXCEPT !.outcome = outcome]

\* get_pods answered: debug_pods starts on the list
DebugPodsStart(pl) ==
    IF pl.err THEN DebugEnd("err")
    ELSE /\ pc' = "debug_pods"
         /\ dbg' = [dbg EXCEPT !.listed = TRUE, !.pods = pl.items, !.k = 1]

\* irt.rs 94-97: what handle_track does with the session's result
HandleOutcome ==
    /\ pc = "done"
    /\ IF handle_decision(result) = "debug"
       THEN pc' = "debug" /\ dbg' = [dbg EXCEPT !.calls = dbg.calls + 1]
       ELSE pc' = "end" /\ UNCHANGED dbg
    /\ obs' = NoObs
    /\ rr' = NoResult
    /\ UNCHANGED <<kind, params, it, waittime, state, i, result, ret, slept, waited, nchecks>>

\* debug_deployment, lines 34-36: nothing to report
debug_deployment_skip(summary) == summary.replicas = 0

\* debug.rs 27-40: debug_deployment up to the answer of get_rs, where it
\* ends unless the replica set has pods to list
DebugDeployment ==
    /\ pc = "debug" /\ kind = "Deployment"
    /\ \E l \in DebugRsLists(state) :
          LET got == get_rs(l)
              summary == ReplicaSetSummary_try_from(got.v[1])
          IN  /\ obs' = [call |-> "debug", rs |-> l]
              /\ IF got.tag # "ok" THEN DebugEnd(got.tag)
                 ELSE IF got.v = None THEN DebugEnd("ok")
                 ELSE IF summary.tag # "ok" THEN DebugEnd(summary.tag)
                 ELSE IF debug_deployment_skip(summary) THEN DebugEnd("ok")
                 ELSE pc' = "debug_list" /\ UNCHANGED dbg
    /\ rr' = NoResult
    /\ UNCHANGED <<kind, params, it, waittime, state, i, result, ret, slept, waited, nchecks>>

\* debug.rs 41-45: get_pods is answered and debug_pods starts
DebugDeploymentPods ==
    /\ pc = "debug_list"
    /\ \E pl \in PodAnswers :
          /\ obs' = [call |-> "debug", rs |-> obs.rs, pods |-> pl]
          /\ DebugPodsStart(pl)
    /\ UNCHANGED <<kind, params, it, waittime, state, i, rr, result, ret, slept, waited,
                   nchecks>>

\* debug.rs 47-53: debug_statefulset up to the call of debug_pods
DebugStatefulSet ==
    /\ pc = "debug" /\ kind = "StatefulSet"
    /\ \E pl \in PodAnswers :
          /\ obs' = [call |-> "debug", rs |-> NotCalled, pods |-> pl]
          /\ DebugPodsStart(pl)
    /\ rr' = NoResult
    /\ UNCHANGED <<kind, params, it, waittime, state, i, result, ret, slept, waited, nchecks>>

\* debug.rs 17: Kind::DaemonSet => unimplemented!()
DebugDaemonSet ==
    /\ pc = "debug" /\ kind = "DaemonSet"
    /\ DebugEnd("panic")
    /\ obs' = [call |-> "debug", rs |-> NotCalled]
    /\ rr' = NoResult
    /\ UNCHANGED <<kind, params, it, waittime, state, i, result, ret, slept, waited, nchecks>>

\* the answers to get_pod_logs
LogAnswers == {"ok", "err"}

\* the test of line 59, had it asked for the logs of the pods that are ready
needs_logs_inverted(podstate) == podstate.running = podstate.containers

\* debug.rs 59: podstate.running != podstate.containers as i32
needs_logs(podstate) == podstate.running # podstate.containers

\* the match of lines 64-70, had the Err been passed on with `?`
logs_decision_escalates(logs) == IF logs = "err" THEN "abort" ELSE "continue"

\* debug.rs 64-70: Ok(logs) is printed, Err(e) is a warning; the loop goes on
logs_decision(logs) == "continue"

\* debug.rs 56-72: one pass of the loop of debug_pods
DebugPod ==
    /\ pc = "debug_pods"
    /\ dbg.k <= Len(dbg.pods)
    /\ LET podstate == PodSummary_try_from(dbg.pods[dbg.k])
       IN  IF podstate.tag # "ok" THEN DebugEnd(podstate.tag)
           ELSE IF needs_logs(podstate)
                THEN \E logs \in LogAnswers :
                        IF logs_decision(logs) = "abort"
                        THEN /\ pc' = "end"
                             /\ dbg' = [dbg EXCEPT !.outcome = "err",
                                            !.fetched = Append(dbg.fetched, <<dbg.k, logs>>)]
                        ELSE /\ pc' = pc
                             /\ dbg' = [dbg EXCEPT !.k = dbg.k + 1,
                                            !.fetched = Append(dbg.fetched, <<dbg.k, logs>>)]
                ELSE dbg' = [dbg EXCEPT !.k = dbg.k + 1] /\ pc' = pc
    /\ UNCHANGED <<kind, params, it, waittime, state, i, obs, rr, result, ret, slept, waited, nchecks>>

\* debug.rs 73: the list is exhausted, Ok(())
DebugPodsDone ==
    /\ pc = "debug_pods"
    /\ dbg.k > Len(dbg.pods)
    /\ DebugEnd("ok")
    /\ UNCHANGED <<kind, params, it, waittime, state, i, obs, rr, result, ret, slept, waited, nchecks>>

\* handle_track for one workload: the session, then the diagnostics.  A
\* DaemonSet never returns a timeout (its pinning step panics), so the
\* DaemonSet arm of Rollout::debug is not among the steps
NextTrack ==
    \/ Next
    \/ HandleOutcome
    \/ DebugDeployment
    \/ DebugDeploymentPods
    \/ DebugStatefulSet
    \/ DebugPod
    \/ DebugPodsDone

SpecTrack == Init /\ [][NextTrack]_vars

\* Rollout::debug on its own, called with a State as a session returns it
InitDebug ==
    /\ kind \in Kinds
    /\ pc = "debug"
    /\ state \in {State(h, m, {AppTerm} \cup (IF h = None THEN {} ELSE {HashTerm(h[1])})) :
                     h \in {None, Some("h1")}, m \in 0..MaxReplicas}
    /\ dbg = [NoDebug EXCEPT !.calls = 1]
    /\ params = None
    /\ it = None
    /\ waittime = 0
    /\ i = 0
    /\ obs = NoObs
    /\ rr = NoResult
    /\ result = "timeout"
    /\ ret = Returned(FALSE, state)
    /\ slept = 0
    /\ waited = 0
    /\ nchecks = 0

NextDebug ==
    \/ DebugDeployment
    \/ DebugDeploymentPods
    \/ DebugStatefulSet
    \/ DebugDaemonSet
    \/ DebugPod
    \/ DebugPodsDone

SpecDebug == InitDebug /\ [][NextDebug]_vars


-----------------------------------------------------------------------------
(* Claims about the diagnostics *)

\* C18: diagnostics is invoked at most once per tracked workload, and only
\* when the session returned a timeout; never after a success and never after
\* the session ended with an error
C18_DebugOnlyOnTimeout ==
    /\ dbg.calls <= 1
    /\ dbg.calls = 1 => (result = "timeout" /\ ret = Returned(FALSE, state))
    /\ result \in {"none", "success", "error", "panic"} =>
          (dbg = NoDebug /\ pc # "debug" /\ pc # "debug_pods")

\* C18 witness: a session that timed out and whose diagnostics then ran to
\* its end over a listed pod
C18_Witness ==
    /\ pc = "end" /\ result = "timeout"
    /\ dbg.calls = 1 /\ dbg.outcome = "ok" /\ Len(dbg.pods) = 1

\* debug_deployment has listed the replica sets
AfterDebugDeployment == kind = "Deployment" /\ obs.call = "debug"
\* exactly one replica set matched, with its status and its hash label
SoleReplicaSet ==
    /\ ~obs.rs.err
    /\ Len(obs.rs.items) = 1
    /\ obs.rs.items[1].status # None
    /\ obs.rs.items[1].labels.pod_template_hash # None
\* get_pods was called
PodsAsked == "pods" \in DOMAIN obs

\* C19: Deployment diagnostics: more than one matching replica set is an
\* invariant violation; exactly one with a replica count of zero returns Ok
\* without listing pods or fetching logs; exactly one with another replica
\* count lists the pods under the selector and runs the pod-level diagnosis
\* on them
C19_DebugDeployment ==
    AfterDebugDeployment =>
        /\ (~obs.rs.err /\ Len(obs.rs.items) > 1) =>
              (pc = "end" /\ dbg.outcome = "panic" /\ ~PodsAsked /\ ~dbg.listed)
        /\ (SoleReplicaSet /\ obs.rs.items[1].status[1].replicas = 0) =>
              (pc = "end" /\ dbg.outcome = "ok" /\ ~PodsAsked /\ ~dbg.listed
               /\ dbg.fetched = <<>>)
        /\ (SoleReplicaSet /\ obs.rs.items[1].status[1].replicas # 0) =>
              \/ pc = "debug_list"
              \/ /\ PodsAsked
                 /\ obs.pods.err => (pc = "end" /\ dbg.outcome = "err")
                 /\ ~obs.pods.err =>
                       (dbg.listed /\ dbg.pods = obs.pods.items
                        /\ pc \in {"debug_pods", "end"})

\* C20: diagnostics of a StatefulSet and of a DaemonSet skips the replica sets
\* and runs the pod-level diagnosis over the pods matching the State's
\* selector, returning Ok when all pods were processed
C20_DebugWithoutReplicaSets ==
    (kind \in {"StatefulSet", "DaemonSet"} /\ obs.call = "debug") =>
        /\ ~obs.rs.called
        /\ PodsAsked
        /\ ~obs.pods.err => (dbg.listed /\ dbg.pods = obs.pods.items)
        /\ (pc = "end" /\ dbg.listed /\ dbg.k > Len(dbg.pods)) => dbg.outcome = "ok"


-----------------------------------------------------------------------------
(* Claims about the pod-level diagnosis *)

\* the pods whose logs were asked for, by their place in the list
FetchedPods == {dbg.fetched[j][1] : j \in 1..Len(dbg.fetched)}
\* the container statuses of a pod
StatusesOf(pod) ==
    IF pod.status = None THEN <<>> ELSE unwrap_or(pod.status[1].container_statuses, <<>>)
\* fewer containers of the pod are ready than it has
FewerReady(pod) ==
    Cardinality({c \in 1..Len(StatusesOf(pod)) : StatusesOf(pod)[c].ready})
        < Len(StatusesOf(pod))

\* C21: the pod-level diagnosis asks for the logs of a pod exactly when the
\* pod's ready-container count is less than its container count
C21_LogsWhenNotReady ==
    dbg.listed =>
        /\ FetchedPods \subseteq 1..Len(dbg.pods)
        /\ \A j \in 1..Len(dbg.pods) :
              /\ j \in FetchedPods => FewerReady(dbg.pods[j])
              /\ (j < dbg.k /\ FewerReady(dbg.pods[j])) => j \in FetchedPods

\* C21 witness: of two pods walked, the logs of the one that is down were
\* asked for and those of the ready one were not
C21_Witness ==
    /\ pc = "end" /\ dbg.outcome = "ok"
    /\ Len(dbg.pods) = 2
    /\ dbg.pods[1].name = "p-ready" /\ dbg.pods[2].name = "p-down"
    /\ FetchedPods = {2}

\* every pod of the list can be summarised
AllSummarised(pods) ==
    \A j \in 1..Len(pods) : PodSummary_try_from(pods[j]).tag = "ok"

\* C22: a failed log fetch for one pod is not escalated: the diagnosis goes on
\* to the pods after it and the diagnostics returns Ok
C22_LogFailureSwallowed ==
    dbg.listed =>
        /\ \A j \in 1..Len(dbg.fetched) :
              dbg.fetched[j][2] = "err" => dbg.k > dbg.fetched[j][1]
        /\ (pc = "end" /\ AllSummarised(dbg.pods)) =>
              (dbg.outcome = "ok" /\ dbg.k = Len(dbg.pods) + 1)

\* C22 witness: the logs of the first of two pods could not be fetched, the
\* second pod was walked all the same and the diagnostics returned Ok
C22_Witness ==
    /\ pc = "end" /\ dbg.outcome = "ok"
    /\ Len(dbg.pods) = 2 /\ dbg.k = 3
    /\ dbg.fetched = <<<<1, "err">>, <<2, "ok">>>>


-----------------------------------------------------------------------------
(* Claims about the inference *)

\* infer_parameters has just read the workload obs.obj
AfterInfer == obs.call = "infer" /\ ~obs.obj.err
\* the replica count the spec declares, the one the status reports
SpecReplicas(w) == IF w.spec = None THEN None ELSE w.spec[1].replicas
StatusReplicas(k, w) ==
    IF w.status = None THEN None
    ELSE IF k = "Deployment" THEN w.status[1].replicas
    ELSE IF k = "StatefulSet" THEN Some(w.status[1].replicas[1])
    ELSE Some(w.status[1].desired_number_scheduled)
\* the workload carries no replica count at all
NoReplicaSignal(k, w) ==
    IF k = "DaemonSet" THEN StatusReplicas(k, w) = None
    ELSE SpecReplicas(w) = None /\ StatusReplicas(k, w) = None

\* C23: inference fails with an error, and the session ends before any status
\* check, whenever the workload has no spec (no selector) or no replica count
\* signal; a replica target it does infer is one the workload carries
C23_InferenceFailsOnMissing ==
    AfterInfer =>
        /\ (obs.obj.spec = None \/ NoReplicaSignal(kind, obs.obj)) =>
              (pc = "done" /\ result = "error" /\ params = None /\ nchecks = 0)
        /\ pc = "estimate" =>
              Some(params[1].min_replicas)
                  \in {SpecReplicas(obs.obj), StatusReplicas(kind, obs.obj)} \ {None}

\* C23 witness: a Deployment with a spec and a status, neither of which
\* carries a replica count, ended the session with an error
C23_Witness ==
    /\ AfterInfer /\ kind = "Deployment"
    /\ obs.obj.spec # None /\ obs.obj.status # None
    /\ NoReplicaSignal(kind, obs.obj)
    /\ pc = "done" /\ result = "error" /\ nchecks = 0

\* C24: for Deployment and StatefulSet the inferred minimum is the spec's
\* replica count whenever the spec declares one, whatever the status holds and
\* whether or not a status exists; the status's count is used only when the
\* spec's is absent; for DaemonSet it is the status's desired-scheduled count
C24_ReplicaTargetResolution ==
    (AfterInfer /\ obs.obj.spec # None /\ ~obs.obj.spec[1].selector.malformed) =>
        IF kind = "DaemonSet"
        THEN StatusReplicas(kind, obs.obj) # None =>
                (pc = "estimate" /\ Some(params[1].min_replicas) = StatusReplicas(kind, obs.obj))
        ELSE /\ SpecReplicas(obs.obj) # None =>
                   (pc = "estimate" /\ Some(params[1].min_replicas) = SpecReplicas(obs.obj))
             /\ (SpecReplicas(obs.obj) = None /\ StatusReplicas(kind, obs.obj) # None) =>
                   (pc = "estimate" /\ Some(params[1].min_replicas) = StatusReplicas(kind, obs.obj))

\* the readiness delays declared in the pod template, None where a container
\* declares none
DeclaredDelays(w) ==
    IF w.spec[1].podspec = None THEN {}
    ELSE {w.spec[1].podspec[1][c][1] :
             c \in {x \in 1..Len(w.spec[1].podspec[1]) : w.spec[1].podspec[1][x] # None}}

\* C25: the inferred readiness delay is the maximum initial_delay_seconds over
\* the containers that declare a readiness probe, and absent (None) when no
\* container declares one
C25_ReadinessDelay ==
    (AfterInfer /\ pc = "estimate") =>
        IF DeclaredDelays(obs.obj) = {}
        THEN params[1].initial_delay_seconds = None
        ELSE /\ params[1].initial_delay_seconds # None
             /\ params[1].initial_delay_seconds[1] \in DeclaredDelays(obs.obj)
             /\ \A x \in DeclaredDelays(obs.obj) : x <= params[1].initial_delay_seconds[1]


-----------------------------------------------------------------------------
(* estimate.rs: estimate_wait_time on its own *)

\* estimate_wait_time(&WaitParams) in the build given: the seconds it returns,
\* or the way the call to rollout_iterations inside it ends
estimate_wait_time(wp, overflow_checks) ==
    LET ru == unwrap_or(wp.rolling_update, RolloutStrategy_default)
        iterations == rollout_iterations(ru, wp.min_replicas, overflow_checks)
    IN  IF iterations.tag # "ok" THEN iterations
        ELSE Value(estimate_wait_time_of(wp, iterations.v))

\* image sizes in megabytes and readiness delays in seconds
WaitSizes == {None, Some(100), Some(341), Some(342), Some(512), Some(1200)}
WaitDelays == {None, Some(0), Some(1), Some(7), Some(30)}
\* the parameters a caller can pass for a workload of kind k
WaitInputs(k) ==
    {WaitParams(ru, n, sz, d) :
        ru \in EstStrategies(k), n \in 0..MaxEstReplicas,
        sz \in WaitSizes, d \in WaitDelays}

InitWait ==
    /\ kind \in Kinds
    /\ pc = "wait"
    /\ obs \in {[call |-> "estimate_wait_time", wp |-> wp] : wp \in WaitInputs(kind)}
    /\ params = None
    /\ it = None
    /\ waittime = 0
    /\ state = NoState
    /\ i = 0
    /\ rr = NoResult
    /\ result = "none"
    /\ ret = None
    /\ slept = 0
    /\ waited = 0
    /\ nchecks = 0
    /\ dbg = NoDebug

EstimateWaitTime ==
    /\ pc = "wait"
    /\ \E overflow_checks \in Builds : rr' = estimate_wait_time(obs.wp, overflow_checks)
    /\ pc' = "wait_done"
    /\ UNCHANGED <<kind, params, it, waittime, state, i, obs, result, ret, slept, waited,
                   nchecks, dbg>>

NextWait == EstimateWaitTime

SpecWait == InitWait /\ [][NextWait]_vars

\* q is the floor, s the ceiling, of num / den
IsFloorOf(q, num, den) == q * den <= num /\ num < (q + 1) * den
IsCeilOf(s, num, den) == s * den >= num /\ (s - 1) * den < num

\* estimate_wait_time has returned
WaitReturned == pc = "wait_done" /\ rr.tag = "ok"
\* the cycles the rollout takes
WaitCycles ==
    rollout_iterations(unwrap_or(obs.wp.rolling_update, RolloutStrategy_default),
                       obs.wp.min_replicas, TRUE).v

\* C26: estimate_wait_time returns (settle + pull) * rollout_iterations(
\* min_replicas), where pull is the larger of 60 and the floor of
\* image_size * 90 / 512 (image size 512 when absent) and settle is the ceiling
\* of 1.5 * readiness delay (delay 30 when absent); with both absent that is
\* 135 seconds per cycle
C26_WaitTimeFormula ==
    WaitReturned =>
        LET size == IF obs.wp.image_size = None THEN 512 ELSE obs.wp.image_size[1]
            delay == IF obs.wp.initial_delay_seconds = None THEN 30
                     ELSE obs.wp.initial_delay_seconds[1]
        IN  /\ \E q \in 0..size :
                 /\ IsFloorOf(q, size * 90, 512)
                 /\ \E s \in 0..(2 * delay) :
                       /\ IsCeilOf(s, 3 * delay, 2)
                       /\ rr.v = (s + (IF q < 60 THEN 60 ELSE q)) * WaitCycles
            /\ (obs.wp.image_size = None /\ obs.wp.initial_delay_seconds = None) =>
                 rr.v = 135 * WaitCycles

\* C26 witness: an estimate for a large image and an odd delay, over more than
\* one cycle
C26_Witness ==
    /\ WaitReturned
    /\ obs.wp.image_size = Some(1200) /\ obs.wp.initial_delay_seconds = Some(7)
    /\ WaitCycles > 1
    /\ rr.v = (11 + 210) * WaitCycles


-----------------------------------------------------------------------------
(* Claims about the pinned replica set going missing *)

\* the Deployment was read and summarised, and the list under the pinned
\* selector came back empty
PinnedSetGone ==
    /\ kind = "Deployment" /\ is_some(state.hash)
    /\ ~obs.obj.err /\ DeploySummary_try_from(obs.obj).tag = "ok"
    /\ obs.rs.called /\ ~obs.rs.err /\ Len(obs.rs.items) = 0

\* C27: a Deployment status check with a pinned hash under whose selector no
\* replica set is found falls back to the deployment-level aggregate and
\* returns an Outcome; it does not fail
C27_FallbackWhenPinnedSetGone ==
    (pc = "status_done" /\ PinnedSetGone) =>
        rr = deploy_outcome(DeploySummary_try_from(obs.obj), None, state)


-----------------------------------------------------------------------------
(* Claims about the State's selector *)

\* the State has been constructed (line 26)
Constructed == pc \notin {"infer", "estimate", "iterate", "spin"}
\* the terms a step adds to the selector; every term of the model is an
\* equality term (key = val)
AddedTerms == state'.selector \ state.selector

\* C28 (as stated): the selector is only ever narrowed: no term is dropped,
\* only equality terms are added after construction, and once the pinning step
\* has set State.hash, for a Deployment or a StatefulSet, the selector holds an
\* equality term on that hash
C28_SelectorNarrowed ==
    [][Constructed =>
          /\ state.selector \subseteq state'.selector
          /\ \A t \in AddedTerms : is_some(state'.hash) /\ t.val = state'.hash[1]
          /\ is_some(state'.hash) =>
                \E t \in state'.selector : t.val = state'.hash[1]]_vars

\* C28 (amended): no term is dropped, the only term added after construction
\* is the equality term pod-template-hash = State.hash, a Deployment's pinned
\* hash is always in the selector as that term, and pinning a StatefulSet sets
\* State.hash and leaves the selector as it was
C28_SelectorNarrowedDeployment ==
    [][Constructed =>
          /\ state.selector \subseteq state'.selector
          /\ AddedTerms \subseteq
                (IF is_some(state'.hash) THEN {HashTerm(state'.hash[1])} ELSE {})
          /\ (kind = "Deployment" /\ is_some(state'.hash)) =>
                HashTerm(state'.hash[1]) \in state'.selector
          /\ kind = "StatefulSet" => state'.selector = state.selector]_vars

\* C28 witness: a Deployment was pinned and the selector holds the term it
\* was constructed with and the term on the pinned hash
C28_Witness ==
    /\ kind = "Deployment" /\ pc = "loop"
    /\ is_some(state.hash)
    /\ state.selector = {AppTerm, HashTerm(state.hash[1])}


-----------------------------------------------------------------------------
(* Claims about the version tag of a summary *)

\* the part of an image reference after its last ':'
AfterLastColon(str) ==
    LET stops == {k \in 1..Len(str) : str[k] = ":"}
        n == CHOOSE k \in stops : \A j \in stops : j <= k
    IN  SubSeq(str, n + 1, Len(str))
HasColon(str) == \E k \in 1..Len(str) : str[k] = ":"

\* debug_pods has summarised, or tried to summarise, the pod at position j
Summarised(j) == dbg.listed /\ (j < dbg.k \/ (j = dbg.k /\ pc = "end"))
\* the pod has a sound creation time and its main container names an image
HasMainImage(pod) ==
    /\ ~pod.created_in_future
    /\ default_container(pod).tag = "ok"
    /\ is_some(default_container(pod).v)
    /\ is_some(default_container(pod).v[1].image)
MainImage(pod) == default_container(pod).v[1].image[1]

\* C29: the version of a pod summary is the part of the main container's image
\* reference after its last ':', so a reference with a registry port yields the
\* trailing tag, and the summary never fails on the number of ':' in the
\* reference (a trailing tag that short_ver cannot cut is left aside)
C29_VersionAfterLastColon ==
    \A j \in 1..Len(dbg.pods) :
        (/\ Summarised(j) /\ HasMainImage(dbg.pods[j])
         /\ HasColon(MainImage(dbg.pods[j])) =>
                short_ver(AfterLastColon(MainImage(dbg.pods[j]))).tag = "ok") =>
            /\ PodSummary_try_from(dbg.pods[j]).tag = "ok"
            /\ HasColon(MainImage(dbg.pods[j])) =>
                  PodSummary_try_from(dbg.pods[j]).version
                      = Some(short_ver(AfterLastColon(MainImage(dbg.pods[j]))).v)


-----------------------------------------------------------------------------
(* Claims about the result of a session and its status checks *)

\* C30: a session returns success only if the last status check it made
\* returned ok = true; it returns a timeout only after exactly 19 status checks
\* in the polling phase, each of which returned ok = false (the loop is back at
\* its head after round i only if the check of round i returned ok = false);
\* and it makes at most 20 status checks in all
C30_ResultFollowsChecks ==
    /\ nchecks <= 20
    /\ result = "success" =>
          (obs.call = "status" /\ rr.tag = "ok" /\ rr.ok /\ nchecks = i + 1)
    /\ (pc = "loop" /\ i >= 1) =>
          (obs.call = "status" /\ rr.tag = "ok" /\ ~rr.ok /\ nchecks = i + 1)
    /\ result = "timeout" =>
          (i = 19 /\ nchecks = 20 /\ rr.tag = "ok" /\ ~rr.ok)

\* C30 witness: the twentieth status check of a session, the nineteenth of the
\* polling phase, returned ok = true and the session returned success
C30_Witness ==
    /\ pc = "done" /\ result = "success"
    /\ i = 19 /\ nchecks = 20
    /\ obs.call = "status" /\ rr.tag = "ok" /\ rr.ok


-----------------------------------------------------------------------------
(* Claims about the progress of a complete rollout *)

\* C31: whenever a status check returns ok = true its progress is at least its
\* expected count, for every kind and on every path, the fallback path of a
\* Deployment included
C31_OkMeansFullProgress ==
    (pc = "status_done" /\ rr.tag = "ok" /\ rr.ok) => rr.progress >= rr.expected


-----------------------------------------------------------------------------
(* Claims about what changes the State *)

\* C32: a status check never modifies the State.  State.min_replicas is the
\* inferred minimum from construction on (a larger replica set only raises the
\* expected count of that check's Outcome); State.hash and State.selector are
\* changed by the pinning step alone, which runs at most once, after the check
\* before the loop and before the first round; the State a session returns is
\* the State of its rounds
C32_StatusLeavesState ==
    [][/\ AtLoopExit =>
              (state'.min_replicas = params[1].min_replicas /\ state'.hash = None)
       /\ Constructed => state'.min_replicas = state.min_replicas
       /\ (Constructed /\ pc # "pin") => state' = state
       /\ pc = "pin" => (pc' # "pin" /\ i = 0 /\ nchecks = 1 /\ state.hash = None)
       /\ (pc \in {"initial", "check"} /\ rr'.tag = "ok") =>
              rr'.expected >= state'.min_replicas
       /\ (pc # "done" /\ result' \in {"success", "timeout"}) =>
              ret' = Returned(result' = "success", state)]_vars

\* C32 witness: a round's check of a pinned Deployment reported an expected
\* count above State.min_replicas, and the loop goes on
C32_Witness ==
    /\ AfterPollCheck /\ pc = "loop" /\ i = 2
    /\ kind = "Deployment" /\ is_some(state.hash)
    /\ rr.tag = "ok" /\ rr.expected > state.min_replicas


-----------------------------------------------------------------------------
(* Claims about the counters of rollout_iterations *)

\* the pods of the old replica set that line 136 retires at the head of a pass
Retired(l) == l.oldrs + l.newrs - l.replicas

\* C33: the unsigned counters of rollout_iterations never underflow: at the
\* head of every pass old + new >= replicas and new < replicas, so the
\* subtraction that retires the surged pods takes at most old away, and right
\* after it old + new = replicas
C33_CountersNeverUnderflow ==
    InLoop =>
        /\ it[1].oldrs >= 0 /\ it[1].newrs >= 0
        /\ rollout_iterations_continues(it[1]) =>
              /\ it[1].oldrs + it[1].newrs >= it[1].replicas
              /\ it[1].newrs < it[1].replicas
              /\ Retired(it[1]) >= 0 /\ Retired(it[1]) <= it[1].oldrs
              /\ (it[1].oldrs - Retired(it[1])) + it[1].newrs = it[1].replicas

\* C33 witness: the head of a later pass at which surged pods are retired
C33_Witness ==
    /\ InLoop /\ rollout_iterations_continues(it[1])
    /\ it[1].iters >= 1
    /\ Retired(it[1]) > 0 /\ Retired(it[1]) < it[1].oldrs


-----------------------------------------------------------------------------
(* Claims about version labels the pinning step cannot read *)

\* the replica set has no app.kubernetes.io/version label, or one that is not
\* a semantic version
Unversioned(rs) ==
    \/ rs.labels.version = None
    \/ Version_parse(rs.labels.version[1]) = None

\* C34: the pinning step of a Deployment ends the session with an error,
\* before any round of the polling phase, whenever some replica set under the
\* selector has a missing or non-semver version label, even when another one
\* carries a valid highest version
C34_UnversionedSetFailsPin ==
    (AfterPinDeployment /\ ~obs.rs.err
        /\ \E k \in 1..Len(obs.rs.items) : Unversioned(obs.rs.items[k]))
    => /\ pc = "done" /\ result = "error" /\ ret = None
       /\ i = 0 /\ nchecks = 1
       /\ state.hash = None /\ state.selector = {AppTerm}

\* C34 witness: a replica set with a valid version above 0.0.0 and a
\* pod-template-hash was listed first, one with the label "latest" second, and
\* the session ended with an error
C34_Witness ==
    /\ AfterPinDeployment /\ ~obs.rs.err /\ Len(obs.rs.items) = 2
    /\ ~Unversioned(obs.rs.items[1])
    /\ Version_gt(VersionOf(obs.rs.items[1]), Version_new(0, 0, 0))
    /\ obs.rs.items[1].labels.pod_template_hash # None
    /\ obs.rs.items[2].labels.version = Some(Label_latest)
    /\ pc = "done" /\ result = "error"

====
